---- MODULE Spec2Model ----
(***************************************************************************)
(* Verification model of the watering-system firmware:                     *)
(*   - the mDNS wire decoder, resolution cache and service resolver        *)
(*     (src/src/mdns.rs),                                                  *)
(*   - the MQTT message type, the two mailboxes and the broker workers     *)
(*     (src/src/mqtt.rs) with their producers/consumers (src/src/bin/      *)
(*     main.rs, src/src/pump.rs).                                          *)
(* Byte buffers are sequences of naturals 0..255; the code's 0-based       *)
(* offset i is element i+1 of the sequence.                                *)
(***************************************************************************)
EXTENDS Integers, Sequences, FiniteSets, TLC

(***************************************************************************)
(* Option / outcome values of the decoder functions.                       *)
(*   none    : the function returned None                                  *)
(*   some    : the function returned Some(v)                               *)
(*   panic   : an index at or beyond the buffer length was read            *)
(*   diverge : the function's loop never ends                              *)
(***************************************************************************)
None == [k |-> "none"]
Some(v) == [k |-> "some", v |-> v]
Panic == [k |-> "panic"]
Diverge == [k |-> "diverge"]

\* data[i] is inside the slice (Rust indexing panics otherwise)
InB(data, i) == i >= 0 /\ i < Len(data)
\* data[i], 0-based
At(data, i) == data[i + 1]
\* u16::from_be_bytes([hi, lo])
from_be_bytes(hi, lo) == hi * 256 + lo
\* len & 0xC0 == 0xC0 on a byte: both top bits set
IsPointer(len) == (len \div 64) = 3

\* heapless::String<64> capacity (bytes)
NameCap == 64
\* UTF-8 size of the char made from one byte (b as char): 1 byte below 0x80, else 2
CharLen(b) == IF b < 128 THEN 1 ELSE 2
\* String::len(): one byte per char, and one more for each char of two bytes
Utf8Len(s) == Len(s) + Cardinality({i \in DOMAIN s : CharLen(s[i]) = 2})

(***************************************************************************)
(* skip_dns_name: offset just after the name starting at offset.           *)
(***************************************************************************)
RECURSIVE skip_dns_name(_, _)
skip_dns_name(data, offset) ==
    IF offset >= Len(data) THEN None
    ELSE LET len == At(data, offset) IN
         IF len = 0 THEN Some(offset + 1)
         ELSE IF IsPointer(len) THEN Some(offset + 2)
         ELSE skip_dns_name(data, offset + 1 + len)

(***************************************************************************)
(* parse_dns_name: the loop of lines 387-427 as a recursion over           *)
(* (offset, result, first_label).  seen holds the offsets of the pointers   *)
(* followed since the last label: a jump is a function of the offset alone *)
(* and changes nothing else, so a jump back to one of them never ends.     *)
(***************************************************************************)
\* mutant: a full string ends the copy and the name goes on truncated
push_label_truncate(data, offset, n, result) ==
    LET chars(m) == [k \in 1..m |-> At(data, offset + k - 1)]
        fit == {m \in 0..n : (\A i \in 0..(m - 1) : InB(data, offset + i))
                              /\ Utf8Len(result \o chars(m)) <= NameCap}
    IN Some(result \o chars(CHOOSE m \in fit : \A k \in fit : k <= m))

\* for i in 0..len { result.push(data[offset + i] as char) }, None when the string is full
push_label(data, offset, n, result) ==
    LET outside == {i \in 0..(n - 1) : ~InB(data, offset + i)}
        first_outside ==
            IF outside = {} THEN n
            ELSE CHOOSE i \in outside : \A j \in outside : i <= j
        chars(m) == [k \in 1..m |-> At(data, offset + k - 1)]
        full == \E i \in 0..(first_outside - 1) :
                    Utf8Len(result \o chars(i + 1)) > NameCap
    IN IF full THEN None
       ELSE IF first_outside < n THEN Panic
       ELSE Some(result \o chars(n))

RECURSIVE parse_dns_name_loop(_, _, _, _, _)
parse_dns_name_loop(data, offset, result, first_label, seen) ==
    IF offset >= Len(data) THEN None
    ELSE LET len == At(data, offset) IN
         IF len = 0 THEN (IF result = <<>> THEN None ELSE Some(result))
         ELSE IF IsPointer(len) THEN
              IF offset + 1 >= Len(data) THEN None
              ELSE IF offset \in seen THEN Diverge
              ELSE parse_dns_name_loop(data,
                       ((len % 64) * 256) + At(data, offset + 1),
                       result, first_label, seen \cup {offset})
         ELSE LET dotted == IF first_label THEN result ELSE Append(result, 46) IN
              IF ~first_label /\ Utf8Len(result) + 1 > NameCap THEN None
              ELSE IF (offset + 1) + len > Len(data) THEN None
              ELSE LET pushed == push_label(data, offset + 1, len, dotted) IN
                   IF pushed.k # "some" THEN pushed
                   ELSE parse_dns_name_loop(data, offset + 1 + len, pushed.v, FALSE, {})

parse_dns_name(data, offset) == parse_dns_name_loop(data, offset, <<>>, TRUE, {})

(***************************************************************************)
(* parse_srv_rdata: (hostname, port) of an SRV resource data.              *)
(***************************************************************************)
\* mutant: the port is read from the weight field (bytes 2-3)
parse_srv_rdata_weight(data, offset, rdlength) ==
    IF rdlength < 6 \/ offset + rdlength > Len(data) THEN None
    ELSE LET port_offset == offset + 2 IN
         IF ~InB(data, port_offset) \/ ~InB(data, port_offset + 1) THEN Panic
         ELSE LET port == from_be_bytes(At(data, port_offset), At(data, port_offset + 1))
                  hostname == parse_dns_name(data, offset + 6)
              IN IF hostname.k = "some" THEN Some(<<hostname.v, port>>) ELSE hostname

\* mutant: the resource data is not checked against the end of the buffer
parse_srv_rdata_unchecked(data, offset, rdlength) ==
    IF rdlength < 6 THEN None
    ELSE LET port_offset == offset + 4 IN
         IF ~InB(data, port_offset) \/ ~InB(data, port_offset + 1) THEN Panic
         ELSE LET port == from_be_bytes(At(data, port_offset), At(data, port_offset + 1))
                  hostname == parse_dns_name(data, offset + 6)
              IN IF hostname.k = "some" THEN Some(<<hostname.v, port>>) ELSE hostname

parse_srv_rdata(data, offset, rdlength) ==
    IF rdlength < 6 \/ offset + rdlength > Len(data) THEN None
    ELSE LET port_offset == offset + 4 IN
         IF ~InB(data, port_offset) \/ ~InB(data, port_offset + 1) THEN Panic
         ELSE LET port == from_be_bytes(At(data, port_offset), At(data, port_offset + 1))
                  hostname == parse_dns_name(data, offset + 6)
              IN IF hostname.k = "some" THEN Some(<<hostname.v, port>>) ELSE hostname

(***************************************************************************)
(* Question section skip, shared by parse_srv_record and parse_a_record:   *)
(* for _ in 0..question_count { offset = skip_dns_name(..)?; offset += 4 } *)
(***************************************************************************)
RECURSIVE skip_questions(_, _, _)
skip_questions(data, offset, n) ==
    IF n = 0 THEN Some(offset)
    ELSE LET s == skip_dns_name(data, offset) IN
         IF s.k # "some" THEN s
         ELSE skip_questions(data, s.v + 4, n - 1)

(***************************************************************************)
(* parse_srv_record: answer loop of lines 237-265.                         *)
(***************************************************************************)
RECURSIVE srv_answers(_, _, _)
srv_answers(data, offset, n) ==
    IF n = 0 THEN None
    ELSE LET s == skip_dns_name(data, offset) IN
         IF s.k # "some" THEN s
         ELSE IF s.v + 10 > Len(data) THEN None
         ELSE IF \E i \in 0..9 : ~InB(data, s.v + i) THEN Panic
         ELSE LET record_type == from_be_bytes(At(data, s.v), At(data, s.v + 1))
                  rdlength == from_be_bytes(At(data, s.v + 8), At(data, s.v + 9))
              IN IF record_type = 33
                 THEN parse_srv_rdata(data, s.v + 10, rdlength)
                 ELSE srv_answers(data, s.v + 10 + rdlength, n - 1)

parse_srv_record(data) ==
    IF Len(data) < 12 THEN None
    ELSE LET question_count == from_be_bytes(At(data, 4), At(data, 5))
             q == skip_questions(data, 12, question_count)
         IN IF q.k # "some" THEN q
            ELSE srv_answers(data, q.v, from_be_bytes(At(data, 6), At(data, 7)))

(***************************************************************************)
(* parse_a_record: answer loop of lines 338-377.                           *)
(***************************************************************************)
RECURSIVE a_answers(_, _, _)
\* mutant: a record of type 1 is taken whatever its RDLENGTH
a_answers_any_len(data, offset, n) ==
    IF n = 0 THEN None
    ELSE LET hostname == parse_dns_name(data, offset) IN
         IF hostname.k # "some" THEN hostname
         ELSE LET s == skip_dns_name(data, offset) IN
              IF s.k # "some" THEN s
              ELSE IF s.v + 10 > Len(data) THEN None
              ELSE IF \E i \in 0..9 : ~InB(data, s.v + i) THEN Panic
              ELSE LET record_type == from_be_bytes(At(data, s.v), At(data, s.v + 1))
                       rdlength == from_be_bytes(At(data, s.v + 8), At(data, s.v + 9))
                       o == s.v + 10
                   IN IF record_type = 1 /\ o + 4 <= Len(data)
                      THEN IF \E i \in 0..3 : ~InB(data, o + i) THEN Panic
                           ELSE Some(<<hostname.v,
                                       <<At(data, o), At(data, o + 1),
                                         At(data, o + 2), At(data, o + 3)>>>>)
                      ELSE a_answers(data, o + rdlength, n - 1)

a_answers(data, offset, n) ==
    IF n = 0 THEN None
    ELSE LET hostname == parse_dns_name(data, offset) IN
         IF hostname.k # "some" THEN hostname
         ELSE LET s == skip_dns_name(data, offset) IN
              IF s.k # "some" THEN s
              ELSE IF s.v + 10 > Len(data) THEN None
              ELSE IF \E i \in 0..9 : ~InB(data, s.v + i) THEN Panic
              ELSE LET record_type == from_be_bytes(At(data, s.v), At(data, s.v + 1))
                       rdlength == from_be_bytes(At(data, s.v + 8), At(data, s.v + 9))
                       o == s.v + 10
                   IN IF record_type = 1 /\ rdlength = 4 /\ o + 4 <= Len(data)
                      THEN IF \E i \in 0..3 : ~InB(data, o + i) THEN Panic
                           ELSE Some(<<hostname.v,
                                       <<At(data, o), At(data, o + 1),
                                         At(data, o + 2), At(data, o + 3)>>>>)
                      ELSE a_answers(data, o + rdlength, n - 1)

parse_a_record(data) ==
    IF Len(data) < 12 THEN None
    ELSE LET question_count == from_be_bytes(At(data, 4), At(data, 5))
             q == skip_questions(data, 12, question_count)
         IN IF q.k # "some" THEN q
            ELSE a_answers(data, q.v, from_be_bytes(At(data, 6), At(data, 7)))

(***************************************************************************)
(* Test packets.  Names are short so that whole packets stay small:        *)
(* "a.l" and "b.l" are host names, "s" is the service instance name.       *)
(***************************************************************************)
Lbl(s) == <<Len(s)>> \o s
NameA == Lbl(<<97>>) \o Lbl(<<108>>) \o <<0>>
NameB == Lbl(<<98>>) \o Lbl(<<108>>) \o <<0>>
SvcName == Lbl(<<115>>) \o <<0>>
HostA == <<97, 46, 108>>
HostB == <<98, 46, 108>>
ZeroIp == <<0, 0, 0, 0>>
IpX == <<192, 168, 1, 10>>
IpY == <<10, 0, 0, 2>>
Ports == <<1883, 8883>>
PortP == Ports[1]
PortQ == Ports[2]
Header(qd, an) == <<0, 0, 132, 0, 0, qd, 0, an, 0, 0, 0, 0>>
RR(name, type, rdata) ==
    name \o <<0, type, 0, 1, 0, 0, 0, 120, 0, Len(rdata)>> \o rdata
SrvRR(target, port) ==
    RR(SvcName, 33, <<0, 0, 0, 0, port \div 256, port % 256>> \o target)
ARR(name, ip) == RR(name, 1, ip)
TxtRR == RR(SvcName, 16, <<1, 120>>)
Question == SvcName \o <<0, 33, 0, 1>>

SrvPkt(target, port) == Header(0, 1) \o SrvRR(target, port)
APkt(name, ip) == Header(0, 1) \o ARR(name, ip)
BundledPkt(target, port, name, ip) ==
    Header(0, 2) \o SrvRR(target, port) \o ARR(name, ip)
\* an A record whose name is a compression pointer to itself (offset 12)
LoopPkt == Header(0, 1) \o RR(<<192, 12>>, 1, IpX)
\* an SRV packet cut in the middle of the target name
CutPkt == SubSeq(SrvPkt(NameA, PortP), 1, Len(SrvPkt(NameA, PortP)) - 3)

\* the datagrams the resolver can receive
Packets == <<
    SrvPkt(NameA, PortP),
    SrvPkt(NameB, PortQ),
    APkt(NameA, IpX),
    APkt(NameB, IpY),
    BundledPkt(NameA, PortP, NameA, IpX),
    SrvPkt(NameA, 0),
    APkt(NameA, ZeroIp),
    BundledPkt(NameA, PortP, NameB, IpY),
    CutPkt,
    LoopPkt,
    BundledPkt(NameA, 0, NameA, IpX) >>
PacketIds == DOMAIN Packets

(***************************************************************************)
(* MdnsQuery::parse_mdns_query (esp_hal_mdns, outside the repository): the *)
(* single-packet resolution.  A packet that carries an SRV record and an A *)
(* record named as the SRV target yields that (address, port) pair; any    *)
(* other packet yields the "not yet resolved" pair (0.0.0.0, 0).           *)
(***************************************************************************)
RECURSIVE a_for_name(_, _, _, _)
a_for_name(data, offset, n, name) ==
    IF n = 0 THEN None
    ELSE LET h == parse_dns_name(data, offset)
             s == skip_dns_name(data, offset) IN
         IF h.k # "some" \/ s.k # "some" \/ s.v + 10 > Len(data) THEN None
         ELSE LET record_type == from_be_bytes(At(data, s.v), At(data, s.v + 1))
                  rdlength == from_be_bytes(At(data, s.v + 8), At(data, s.v + 9))
                  o == s.v + 10
              IN IF record_type = 1 /\ rdlength = 4 /\ o + 4 <= Len(data) /\ h.v = name
                 THEN Some(<<At(data, o), At(data, o + 1), At(data, o + 2), At(data, o + 3)>>)
                 ELSE a_for_name(data, o + rdlength, n - 1, name)

parse_mdns_query(data) ==
    LET srv == parse_srv_record(data)
        q == IF Len(data) < 12 THEN None
             ELSE skip_questions(data, 12, from_be_bytes(At(data, 4), At(data, 5)))
        a == IF srv.k = "some" /\ q.k = "some"
             THEN a_for_name(data, q.v, from_be_bytes(At(data, 6), At(data, 7)), srv.v[1])
             ELSE None
    IN IF srv.k = "some" /\ a.k = "some" THEN <<a.v, srv.v[2]>> ELSE <<ZeroIp, 0>>

\* The decoder is a function of the bytes alone: its results on the packets
\* above, computed once.  Below, a datagram is named by its index in Packets.
Decoded ==
    [p \in PacketIds |->
        [q |-> parse_mdns_query(Packets[p]),
         srv |-> parse_srv_record(Packets[p]),
         a |-> parse_a_record(Packets[p])]]

(***************************************************************************)
(* Resolution cache: cached_hostname, cached_port, cached_ip, cache_time   *)
(* (query_service locals, passed by &mut to parse_with_state).             *)
(***************************************************************************)
NoCache == [hostname |-> None, port |-> None, ip |-> None, time |-> None]
CacheTimeout == 30000
saturating_sub(a, b) == IF a >= b THEN a - b ELSE 0

\* mutant: the age test is >= instead of >
evict_ge(cache, current_time) ==
    IF cache.time.k = "some" /\ saturating_sub(current_time, cache.time.v) >= CacheTimeout
    THEN NoCache
    ELSE cache

\* mutant: the cached address is not cleared
evict_keep_ip(cache, current_time) ==
    IF cache.time.k = "some" /\ saturating_sub(current_time, cache.time.v) > CacheTimeout
    THEN [NoCache EXCEPT !.ip = cache.ip]
    ELSE cache

\* mutant: only the timestamp is cleared
evict_time_only(cache, current_time) ==
    IF cache.time.k = "some" /\ saturating_sub(current_time, cache.time.v) > CacheTimeout
    THEN [cache EXCEPT !.time = None]
    ELSE cache

\* lines 139-148
evict(cache, current_time) ==
    IF cache.time.k = "some" /\ saturating_sub(current_time, cache.time.v) > CacheTimeout
    THEN NoCache
    ELSE cache

\* line 154: port != 0 && ip_v4 != [0, 0, 0, 0]
Complete(ip_v4, port) == port # 0 /\ ip_v4 # ZeroIp

\* a finished call: the returned pair, the cache it leaves, the cache as it
\* was after the eviction check, the return statement taken, and which of
\* the stores (lines 175-177: "srv", line 204: "ip") the call executed
Ret(ip_v4, port, cache, mid, via, st) ==
    [k |-> "ret", ip |-> ip_v4, port |-> port, cache |-> cache, mid |-> mid,
     via |-> via, st |-> st]
\* a call that never returns (decoder panic or endless loop)
NoRet(kind, mid) ==
    [k |-> kind, ip |-> ZeroIp, port |-> 0, cache |-> mid, mid |-> mid,
     via |-> "abort", st |-> {}]

\* mutant: the A step is tried only when the datagram has no SRV record
correlate_else(ip_v4, port, d, current_time, cache) ==
    IF d.srv.k \in {"panic", "diverge"} THEN NoRet(d.srv.k, cache)
    ELSE IF d.srv.k = "some" /\ cache.ip.k = "some"
    THEN Ret(cache.ip.v, d.srv.v[2], cache, cache, "srv_cached_ip", {})
    ELSE IF d.srv.k = "some"
    THEN Ret(ip_v4, port,
             [cache EXCEPT !.hostname = Some(d.srv.v[1]),
                           !.port = Some(d.srv.v[2]),
                           !.time = Some(current_time)],
             cache, "fallthrough", {"srv"})
    ELSE IF d.a.k \in {"panic", "diverge"} THEN NoRet(d.a.k, cache)
    ELSE IF d.a.k = "some"
    THEN IF cache.hostname.k = "some" /\ cache.port.k = "some"
            /\ d.a.v[1] = cache.hostname.v
         THEN Ret(d.a.v[2], cache.port.v, cache, cache, "a_match", {})
         ELSE Ret(ip_v4, port,
                  [cache EXCEPT !.ip = Some(d.a.v[2]),
                                !.time = IF cache.time.k = "none"
                                         THEN Some(current_time) ELSE cache.time],
                  cache, "fallthrough", {"ip"})
    ELSE Ret(ip_v4, port, cache, cache, "fallthrough", {})

\* mutant: the SRV step sets the timestamp only if none is set
correlate_srv_keep_time(ip_v4, port, d, current_time, cache) ==
    IF d.srv.k \in {"panic", "diverge"} THEN NoRet(d.srv.k, cache)
    ELSE IF d.srv.k = "some" /\ cache.ip.k = "some"
    THEN Ret(cache.ip.v, d.srv.v[2], cache, cache, "srv_cached_ip", {})
    ELSE LET c1 == IF d.srv.k = "some"
                   THEN [cache EXCEPT !.hostname = Some(d.srv.v[1]),
                                      !.port = Some(d.srv.v[2]),
                                      !.time = IF cache.time.k = "none"
                                               THEN Some(current_time)
                                               ELSE cache.time]
                   ELSE cache
             s1 == IF d.srv.k = "some" THEN {"srv"} ELSE {}
         IN IF d.a.k \in {"panic", "diverge"} THEN NoRet(d.a.k, cache)
            ELSE IF d.a.k = "some"
            THEN IF c1.hostname.k = "some" /\ c1.port.k = "some"
                    /\ d.a.v[1] = c1.hostname.v
                 THEN Ret(d.a.v[2], c1.port.v, c1, cache, "a_match", s1)
                 ELSE Ret(ip_v4, port,
                          [c1 EXCEPT !.ip = Some(d.a.v[2]),
                                     !.time = IF c1.time.k = "none"
                                              THEN Some(current_time) ELSE c1.time],
                          cache, "fallthrough", s1 \cup {"ip"})
            ELSE Ret(ip_v4, port, c1, cache, "fallthrough", s1)

\* mutant: the A step sets the timestamp on every store
correlate_a_refresh_time(ip_v4, port, d, current_time, cache) ==
    IF d.srv.k \in {"panic", "diverge"} THEN NoRet(d.srv.k, cache)
    ELSE IF d.srv.k = "some" /\ cache.ip.k = "some"
    THEN Ret(cache.ip.v, d.srv.v[2], cache, cache, "srv_cached_ip", {})
    ELSE LET c1 == IF d.srv.k = "some"
                   THEN [cache EXCEPT !.hostname = Some(d.srv.v[1]),
                                      !.port = Some(d.srv.v[2]),
                                      !.time = Some(current_time)]
                   ELSE cache
             s1 == IF d.srv.k = "some" THEN {"srv"} ELSE {}
         IN IF d.a.k \in {"panic", "diverge"} THEN NoRet(d.a.k, cache)
            ELSE IF d.a.k = "some"
            THEN IF c1.hostname.k = "some" /\ c1.port.k = "some"
                    /\ d.a.v[1] = c1.hostname.v
                 THEN Ret(d.a.v[2], c1.port.v, c1, cache, "a_match", s1)
                 ELSE Ret(ip_v4, port,
                          [c1 EXCEPT !.ip = Some(d.a.v[2]),
                                     !.time = Some(current_time)],
                          cache, "fallthrough", s1 \cup {"ip"})
            ELSE Ret(ip_v4, port, c1, cache, "fallthrough", s1)

\* lines 162-213, after the bundled attempt: cache is the cache after the
\* eviction check, d the decoder's results on the datagram (d.srv where the
\* code calls parse_srv_record(data), d.a where it calls parse_a_record(data))
correlate(ip_v4, port, d, current_time, cache) ==
    IF d.srv.k \in {"panic", "diverge"} THEN NoRet(d.srv.k, cache)
    ELSE IF d.srv.k = "some" /\ cache.ip.k = "some"
    THEN Ret(cache.ip.v, d.srv.v[2], cache, cache, "srv_cached_ip", {})
    ELSE LET c1 == IF d.srv.k = "some"
                   THEN [cache EXCEPT !.hostname = Some(d.srv.v[1]),
                                      !.port = Some(d.srv.v[2]),
                                      !.time = Some(current_time)]
                   ELSE cache
             s1 == IF d.srv.k = "some" THEN {"srv"} ELSE {}
         IN IF d.a.k \in {"panic", "diverge"} THEN NoRet(d.a.k, cache)
            ELSE IF d.a.k = "some"
            THEN IF c1.hostname.k = "some" /\ c1.port.k = "some"
                    /\ d.a.v[1] = c1.hostname.v
                 THEN Ret(d.a.v[2], c1.port.v, c1, cache, "a_match", s1)
                 ELSE Ret(ip_v4, port,
                          [c1 EXCEPT !.ip = Some(d.a.v[2]),
                                     !.time = IF c1.time.k = "none"
                                              THEN Some(current_time) ELSE c1.time],
                          cache, "fallthrough", s1 \cup {"ip"})
            ELSE Ret(ip_v4, port, c1, cache, "fallthrough", s1)

\* mutant: the bundled result is also written to the cache
resolve_store_bundled(d, current_time, cache) ==
    IF Complete(d.q[1], d.q[2])
    THEN Ret(d.q[1], d.q[2],
             [cache EXCEPT !.ip = Some(d.q[1]), !.port = Some(d.q[2]),
                           !.time = Some(current_time)],
             cache, "bundled", {"ip"})
    ELSE correlate(d.q[1], d.q[2], d, current_time, cache)

\* mutant: no early return on the bundled result
resolve_no_early_return(d, current_time, cache) ==
    correlate(d.q[1], d.q[2], d, current_time, cache)

\* lines 150-213: the bundled attempt, then the SRV and A steps
resolve(d, current_time, cache) ==
    IF Complete(d.q[1], d.q[2])
    THEN Ret(d.q[1], d.q[2], cache, cache, "bundled", {})
    ELSE correlate(d.q[1], d.q[2], d, current_time, cache)

\* parse_with_state on the datagram Packets[data]
parse_with_state(data, current_time, cached) ==
    resolve(Decoded[data], current_time, evict(cached, current_time))

(***************************************************************************)
(* MqttMessage and the mailboxes (src/src/mqtt.rs lines 45-98).            *)
(* Strings are sequences of bytes.                                         *)
(***************************************************************************)
IN_CAP == 5
OUT_CAP == 5
MAX_TOPIC == 64
MAX_PAYLOAD == 512

\* heapless::String<N>::push_str on a string s: Err when the bytes do not fit
push_str(s, t, cap) == IF Len(s) + Len(t) > cap THEN None ELSE Some(s \o t)

\* mutant: && instead of ||, an oversize field is cut to the capacity
MqttMessage_new_and(mqtt_topic, mqtt_message_content) ==
    LET topic == push_str(<<>>, mqtt_topic, MAX_TOPIC)
        content == push_str(<<>>, mqtt_message_content, MAX_PAYLOAD)
    IN IF topic.k = "none" /\ content.k = "none"
       THEN None
       ELSE Some([topic |-> IF topic.k = "some" THEN topic.v
                            ELSE SubSeq(mqtt_topic, 1, MAX_TOPIC),
                  content |-> IF content.k = "some" THEN content.v
                              ELSE SubSeq(mqtt_message_content, 1, MAX_PAYLOAD)])

\* MqttMessage::new
MqttMessage_new(mqtt_topic, mqtt_message_content) ==
    LET topic == push_str(<<>>, mqtt_topic, MAX_TOPIC)
        content == push_str(<<>>, mqtt_message_content, MAX_PAYLOAD)
    IN IF topic.k = "none" \/ content.k = "none"
       THEN None
       ELSE Some([topic |-> topic.v, content |-> content.v])

\* embassy_sync Channel<_, MqttMessage, N>: a FIFO of at most N messages
\* try_send: Err(Full) when N messages are held, else the message goes last
try_send(ch, message, cap) ==
    IF Len(ch) >= cap THEN None ELSE Some(Append(ch, message))
\* try_receive / receive: the first message is moved out
try_receive(ch) ==
    IF ch = <<>> THEN None ELSE Some([msg |-> Head(ch), rest |-> Tail(ch)])

\* mutant: a full channel gives up its oldest message for the new one
send_message_evict_oldest(outbound_ch, message) ==
    LET r == try_send(outbound_ch, message, OUT_CAP) IN
    IF r.k = "none" THEN Append(Tail(outbound_ch), message) ELSE r.v

\* MqttFacade::send_message: the channel after the call
send_message(outbound_ch, message) ==
    LET r == try_send(outbound_ch, message, OUT_CAP) IN
    IF r.k = "none" THEN outbound_ch ELSE r.v

\* mutant: the message is read but stays in the channel
poll_message_peek(inbound_ch) ==
    IF inbound_ch = <<>> THEN None
    ELSE Some([msg |-> Head(inbound_ch), rest |-> inbound_ch])

\* MqttFacade::poll_message: INBOUND.try_receive().ok()
poll_message(inbound_ch) == try_receive(inbound_ch)

(***************************************************************************)
(* State.                                                                  *)
(***************************************************************************)
VARIABLES
    now,         \* Instant::now().as_millis()
    rpc,         \* position of query_service
    deadline,    \* query_service: deadline
    last_query,  \* MdnsQuery: time of the last query sent (None: never)
    cache,       \* cached_hostname, cached_port, cached_ip, cache_time
    nrecv,       \* datagrams received so far
    returned,    \* the pair query_service returned (None: not returned)
    last,        \* history: the last parse_with_state call
    stored,      \* history: when the cached SRV data / address were stored
    pair,        \* two-packet experiment on parse_with_state
    dec,         \* decoder experiment: a buffer and the outcome of one call
    mk,          \* MqttMessage::new experiment: inputs and outcome
    outbound,    \* OUTBOUND channel
    inbound,     \* INBOUND channel
    ppc,         \* position of run_publisher_worker
    pmsg,        \* run_publisher_worker: message
    vpc,         \* position of run_receiver_worker
    spc,         \* position of sensors_loop
    upc,         \* position of pump_loop
    pump_on,     \* PumpFacade._is_on
    hist,        \* history of the mailboxes: messages offered, accepted, taken
    obs          \* history: what is_link_up() / config_v4() answered when
                 \* query_service (r), the publisher (p) and the receiver (v)
                 \* last went on from a readiness check

vars == <<now, rpc, deadline, last_query, cache, nrecv,
          returned, last, stored, pair, dec, mk,
          outbound, inbound, ppc, pmsg, vpc, spc, upc, pump_on, hist, obs>>

resolver == <<now, rpc, deadline, last_query, cache, nrecv, returned, last, stored>>
mqtt == <<outbound, inbound, ppc, pmsg, vpc, spc, upc, pump_on, hist>>
\* what the resolver's steps leave alone
aux == <<pair, dec, mk, mqtt>>

(***************************************************************************)
(* Bounds of the model.                                                    *)
(***************************************************************************)
\* datagrams the resolver receives in one run
MaxRecv == 3
\* link/DHCP polls that find the network not ready
MaxPolls == 1
\* how long recv_from can wait for a datagram (ms); with the 40 ms idle delay
\* the gaps between two calls are 40, 30000 and 30001 ms before the soft
\* deadline, and 250 ms more after it
RecvWaits == {0, 29960, 29961}

\* last: n counts the calls; p the datagram; at the call's current_time;
\* age the cache age the eviction check computed (-1: no timestamp);
\* mid the cache after the eviction check; k/via/ip/port the outcome;
\* used_at when the cached component a cross-packet result used was stored
NoCall == [n |-> 0, p |-> 0, at |-> 0, age |-> -1, mid |-> NoCache, k |-> "ret",
           via |-> "abort", ip |-> ZeroIp, port |-> 0, used_at |-> 0]
NeverStored == [srv |-> -1, ip |-> -1]
\* obs: the answers to stack.is_link_up() and stack.config_v4().is_some()
Answers(link_up, config_v4) == [link |-> link_up, dhcp |-> config_v4]
NoObs == [r |-> Answers(FALSE, FALSE), p |-> Answers(FALSE, FALSE),
          v |-> Answers(FALSE, FALSE)]

(***************************************************************************)
(* query_service (lines 23-124).                                           *)
(***************************************************************************)
\* mutant: || instead of &&
IsResult_or(ip_v4, port) == port # 0 \/ ip_v4 # ZeroIp

\* line 110: port != 0 && ip_v4 != [0, 0, 0, 0]
IsResult(ip_v4, port) == port # 0 /\ ip_v4 # ZeroIp

\* MdnsQuery::should_send_mdns_packet with resend interval 1000 ms (line 64)
ResendInterval == 1000
should_send_mdns_packet == last_query.k = "none" \/ now - last_query.v >= ResendInterval

ResolverInit ==
    /\ now = 0
    /\ rpc = "wait_link"
    /\ deadline = 0
    /\ last_query = None
    /\ cache = NoCache
    /\ nrecv = 0
    /\ returned = None
    /\ last = NoCall
    /\ stored = NeverStored
    /\ obs = NoObs

\* mutant: the loop is left as soon as the link is up
PollLink_no_dhcp ==
    /\ rpc = "wait_link"
    /\ \E link_up \in BOOLEAN, config_v4 \in BOOLEAN :
          IF link_up
          THEN /\ rpc' = "join"
               /\ now' = now
               /\ obs' = [obs EXCEPT !.r = Answers(link_up, config_v4)]
          ELSE /\ now < MaxPolls * 400
               /\ now' = now + 400
               /\ rpc' = rpc
               /\ obs' = obs
    /\ UNCHANGED <<deadline, last_query, cache, nrecv, returned, last, stored, aux>>

\* lines 28-40: one pass of the link/DHCP wait loop; link_up and config_v4
\* are what stack.is_link_up() and stack.config_v4().is_some() answer
PollLink ==
    /\ rpc = "wait_link"
    /\ \E link_up \in BOOLEAN, config_v4 \in BOOLEAN :
          IF link_up /\ config_v4
          THEN /\ rpc' = "join"
               /\ now' = now
               /\ obs' = [obs EXCEPT !.r = Answers(link_up, config_v4)]
          ELSE /\ now < MaxPolls * 400
               /\ now' = now + 400
               /\ rpc' = rpc
               /\ obs' = obs
    /\ UNCHANGED <<deadline, last_query, cache, nrecv, returned, last, stored, aux>>

\* lines 42-75: join the group, bind 5353, create the query, the deadline and
\* the empty cache; a failed join or bind panics (expect)
Join ==
    /\ rpc = "join"
    /\ \/ /\ rpc' = "send"
          /\ deadline' = now + 5000
          /\ last_query' = None
          /\ cache' = NoCache
       \/ /\ rpc' = "panicked"
          /\ UNCHANGED <<deadline, last_query, cache>>
    /\ UNCHANGED <<now, nrecv, returned, last, stored, aux, obs>>

\* lines 78-82
SendQuery ==
    /\ rpc = "send"
    /\ last_query' = IF should_send_mdns_packet THEN Some(now) ELSE last_query
    /\ rpc' = "recv"
    /\ UNCHANGED <<now, deadline, cache, nrecv, returned, last, stored, aux, obs>>

\* lines 83-117: a datagram arrives after w ms and is parsed
RecvOk ==
    /\ rpc = "recv"
    /\ nrecv < MaxRecv
    /\ \E p \in PacketIds, w \in RecvWaits :
       \E current_time \in {now + w} :
       \E r \in {parse_with_state(p, current_time, cache)} :
          LET st0 == [srv |-> IF r.mid.hostname.k = "none" THEN -1 ELSE stored.srv,
                      ip |-> IF r.mid.ip.k = "none" THEN -1 ELSE stored.ip]
              st1 == [srv |-> IF "srv" \in r.st THEN current_time ELSE st0.srv,
                      ip |-> IF "ip" \in r.st THEN current_time ELSE st0.ip]
          IN /\ now' = current_time
             /\ nrecv' = nrecv + 1
             /\ cache' = r.cache
             /\ stored' = st1
             /\ last' = [n |-> last.n + 1, p |-> p, at |-> current_time,
                         age |-> IF cache.time.k = "some"
                                 THEN saturating_sub(current_time, cache.time.v) ELSE -1,
                         mid |-> r.mid, k |-> r.k, via |-> r.via,
                         ip |-> r.ip, port |-> r.port,
                         used_at |-> IF r.via = "srv_cached_ip" THEN st0.ip
                                     ELSE IF r.via = "a_match" THEN st1.srv
                                     ELSE current_time]
             /\ IF r.k # "ret"
                THEN /\ rpc' = (IF r.k = "panic" THEN "panicked" ELSE "hung")
                     /\ returned' = returned
                ELSE IF IsResult(r.ip, r.port)
                THEN /\ rpc' = "resolved"
                     /\ returned' = Some(<<r.ip, r.port>>)
                ELSE /\ rpc' = "pace"
                     /\ returned' = returned
    /\ UNCHANGED <<deadline, last_query, aux, obs>>

\* line 83, Err branch: recv_from fails after w ms
RecvErr ==
    /\ rpc = "recv"
    /\ nrecv < MaxRecv
    /\ \E w \in RecvWaits : now' = now + w
    /\ nrecv' = nrecv + 1
    /\ rpc' = "pace"
    /\ UNCHANGED <<deadline, last_query, cache, returned, last, stored, aux, obs>>

\* mutant: the deadline ends the loop
Pace_abort ==
    /\ rpc = "pace"
    /\ IF now >= deadline
       THEN rpc' = "timeout" /\ now' = now
       ELSE rpc' = "send" /\ now' = now + 40
    /\ UNCHANGED <<deadline, last_query, cache, nrecv, returned, last, stored, aux, obs>>

\* lines 118-122: the 250 ms pause after the soft deadline, then the 40 ms delay
Pace ==
    /\ rpc = "pace"
    /\ now' = now + (IF now >= deadline THEN 250 ELSE 0) + 40
    /\ rpc' = "send"
    /\ UNCHANGED <<deadline, last_query, cache, nrecv, returned, last, stored, aux, obs>>

(***************************************************************************)
(* Two-packet experiment on parse_with_state: an SRV-only datagram s and   *)
(* an A-only datagram a are processed from an empty cache in both orders,  *)
(* the first at time t1 and the second gap ms later.  Run 1 is s then a,   *)
(* run 2 is a then s.                                                      *)
(***************************************************************************)
SrvOnlyIds == {1, 2, 6}
AOnlyIds == {3, 4, 7}
\* what the packets were built from
SrvTarget == (1 :> HostA) @@ (2 :> HostB) @@ (6 :> HostA)
SrvPort == (1 :> PortP) @@ (2 :> PortQ) @@ (6 :> 0)
AName == (3 :> HostA) @@ (4 :> HostB) @@ (7 :> HostA)
AAddr == (3 :> IpX) @@ (4 :> IpY) @@ (7 :> ZeroIp)
PairGaps == {0, 29999, 30000, 30001}
PairStarts == {0, 500}

PairIdle == [phase |-> "off"]
NoRun == [cache |-> NoCache, k |-> "ret", ip |-> ZeroIp, port |-> 0, via |-> "abort"]
RunOf(r) == [cache |-> r.cache, k |-> r.k, ip |-> r.ip, port |-> r.port, via |-> r.via]

PairInit ==
    \E s \in SrvOnlyIds, a \in AOnlyIds, t \in PairStarts, g \in PairGaps :
        pair = [phase |-> "start", s |-> s, a |-> a, t1 |-> t, gap |-> g,
                r1 |-> NoRun, r2 |-> NoRun]

PairFirst ==
    /\ pair.phase = "start"
    /\ pair' = [pair EXCEPT
                  !.phase = "first",
                  !.r1 = RunOf(parse_with_state(pair.s, pair.t1, NoCache)),
                  !.r2 = RunOf(parse_with_state(pair.a, pair.t1, NoCache))]
    /\ UNCHANGED <<resolver, dec, mk, mqtt, obs>>

PairSecond ==
    /\ pair.phase = "first"
    /\ pair.r1.k = "ret" /\ pair.r2.k = "ret"
    /\ pair' = [pair EXCEPT
                  !.phase = "done",
                  !.r1 = RunOf(parse_with_state(pair.a, pair.t1 + pair.gap, pair.r1.cache)),
                  !.r2 = RunOf(parse_with_state(pair.s, pair.t1 + pair.gap, pair.r2.cache))]
    /\ UNCHANGED <<resolver, dec, mk, mqtt, obs>>

(***************************************************************************)
(* Decoder experiment: one decoder function applied to one buffer.         *)
(***************************************************************************)
\* a response with a question, a TXT record, an SRV record and an A record
\* whose name is a compression pointer to the SRV target
TargetOff == 12 + Len(Question) + Len(TxtRR) + Len(SvcName) + 10 + 6
RichPkt ==
    Header(1, 3) \o Question \o TxtRR \o SrvRR(NameA, PortP)
        \o RR(<<192, TargetOff>>, 1, IpX)
Truncations(d) == {SubSeq(d, 1, n) : n \in 0..Len(d)}
FuzzBytes == {0, 5, 63, 192}
Corruptions(d) == {[d EXCEPT ![i] = b] : i \in 1..Len(d), b \in FuzzBytes}

\* Well-formed responses described record by record: a record is its name
\* (a sequence of labels), its TYPE and its resource data; an SRV record is
\* described by its target (labels) and port as well.
RECURSIVE WireName(_)
WireName(labels) ==
    IF labels = <<>> THEN <<0>> ELSE Lbl(Head(labels)) \o WireName(Tail(labels))
RECURSIVE Dotted(_)
Dotted(labels) ==
    IF Len(labels) = 1 THEN labels[1]
    ELSE labels[1] \o <<46>> \o Dotted(Tail(labels))
Rec(name, type, rdata) == [name |-> name, type |-> type, rdata |-> rdata]
SrvRec(name, target, port) ==
    [name |-> name, type |-> 33,
     rdata |-> <<0, 0, 0, 0, port \div 256, port % 256>> \o WireName(target),
     target |-> target, port |-> port]
\* the labels "a", "b", "l" and "s"
Labels == [a |-> <<97>>, b |-> <<98>>, l |-> <<108>>, s |-> <<115>>]
\* three labels of 21 bytes: 65 bytes with the two separators
LongLabel == [i \in 1..21 |-> 120]
LongName == <<LongLabel, LongLabel, LongLabel>>
\* a record of type 1 with 5 bytes of resource data
RecA5 == Rec(<<Labels.b, Labels.l>>, 1, <<10, 0, 0, 9, 9>>)
\* records of other types, or of type 1 with a length other than 4
ScanPre ==
    { Rec(<<Labels.s>>, 16, <<1, 120>>),
      Rec(<<>>, 16, <<1, 120>>),
      Rec(LongName, 16, <<>>),
      RecA5,
      Rec(<<Labels.s>>, 12, WireName(<<Labels.s>>)) }
RecA1 == Rec(<<Labels.a, Labels.l>>, 1, IpX)
RecA2 == Rec(<<Labels.b, Labels.l>>, 1, IpY)
RecS1 == SrvRec(<<Labels.s>>, <<Labels.a, Labels.l>>, PortP)
RecS2 == SrvRec(<<Labels.s>>, <<Labels.b, Labels.l>>, PortQ)
ScanTails == { <<RecA1, RecA2>>, <<RecS1, RecS2>>, <<RecS1, RecA1>>, <<RecA2, RecS2>> }
ScanCases ==
    { [qd |-> qd, recs |-> pre \o tail] :
        qd \in {0, 1},
        pre \in {<<>>} \cup {<<r>> : r \in ScanPre}
                  \cup {<<Rec(<<Labels.s>>, 16, <<1, 120>>), r>> : r \in ScanPre},
        tail \in ScanTails }
RECURSIVE WireRecs(_)
WireRecs(recs) ==
    IF recs = <<>> THEN <<>>
    ELSE RR(WireName(Head(recs).name), Head(recs).type, Head(recs).rdata)
            \o WireRecs(Tail(recs))
Build(c) ==
    Header(c.qd, Len(c.recs)) \o (IF c.qd = 1 THEN Question ELSE <<>>)
        \o WireRecs(c.recs)
ScanBufs == {Build(c) : c \in ScanCases}


\* Names on their own, as labels: the buffer is the wire form of the name.
\* 233 is a byte that takes two bytes as a char of the string.
Label(n, b) == [i \in 1..n |-> b]
NameCases ==
    { <<Labels.a>>, <<Labels.a, Labels.l>>, <<Labels.a, Labels.b, Labels.l>>,
      <<>>,
      LongName,
      <<LongLabel, LongLabel, Label(20, 120)>>,
      <<Label(32, 233)>>,
      <<Label(31, 233), Labels.a>>,
      <<Label(33, 233)>> }
NameBufs == {WireName(ls) : ls \in NameCases}
\* a response longer than 256 bytes: a TXT record with 250 bytes of data, an
\* A record named a.l, and an A record named by the label b and a
\* compression pointer to the label l of the record before
BigNameOff == 12 + Len(SvcName) + 10 + 250
BigPkt ==
    Header(0, 3) \o RR(SvcName, 16, Label(250, 120)) \o ARR(NameA, IpX)
        \o RR(Lbl(Labels.b) \o <<192 + ((BigNameOff + 2) \div 256), (BigNameOff + 2) % 256>>,
              1, IpY)
BigPtrOff == BigNameOff + Len(NameA) + 10 + 4
\* the A record of RichPkt, named by a pointer to the SRV target
RichPtrOff == TargetOff + Len(NameA)

Buffers ==
    Truncations(RichPkt) \cup Corruptions(RichPkt)
        \cup UNION {Truncations(Packets[p]) : p \in PacketIds}
        \cup ScanBufs \cup NameBufs \cup {BigPkt}
\* rdlength values tried on parse_srv_rdata, besides the rest of the buffer
RdLens == {5, 6}

NoDec == [buf |-> <<>>, fn |-> "off", off |-> 0, rdl |-> 0, out |-> None]
DecInit == \E b \in Buffers : dec = [NoDec EXCEPT !.buf = b, !.fn = "none"]

Decoded1(fn, off, rdl, out) ==
    /\ dec.fn = "none"
    /\ dec' = [dec EXCEPT !.fn = fn, !.off = off, !.rdl = rdl, !.out = out]
    /\ UNCHANGED <<resolver, pair, mk, mqtt, obs>>

DecSrv == Decoded1("srv", 0, 0, parse_srv_record(dec.buf))
DecA == Decoded1("a", 0, 0, parse_a_record(dec.buf))
DecRdata ==
    \E off \in 0..Len(dec.buf) : \E rdl \in RdLens \cup {Len(dec.buf) - off} :
        Decoded1("rdata", off, rdl, parse_srv_rdata(dec.buf, off, rdl))
DecSkip ==
    \E off \in 0..(Len(dec.buf) + 1) :
        Decoded1("skip", off, 0, skip_dns_name(dec.buf, off))
DecName ==
    \E off \in 0..(Len(dec.buf) + 1) :
        Decoded1("name", off, 0, parse_dns_name(dec.buf, off))

(***************************************************************************)
(* MqttMessage::new experiment.                                            *)
(***************************************************************************)
\* lengths tried: 0, 1 and up to MsgSlack bytes around each capacity
MsgSlack == 2
Str(n, b) == [i \in 1..n |-> b]
TopicLens == {0, 1} \cup ((MAX_TOPIC - MsgSlack)..(MAX_TOPIC + MsgSlack))
PayloadLens == {0, 1} \cup ((MAX_PAYLOAD - MsgSlack)..(MAX_PAYLOAD + MsgSlack))

NoMk == [topic |-> <<>>, content |-> <<>>, called |-> FALSE, out |-> None]
MkInit ==
    \E n \in TopicLens, m \in PayloadLens, b \in {97, 98} :
        mk = [NoMk EXCEPT !.topic = Str(n, b), !.content = Str(m, 195 - b)]
MkNew ==
    /\ ~mk.called
    /\ mk' = [mk EXCEPT !.called = TRUE, !.out = MqttMessage_new(mk.topic, mk.content)]
    /\ UNCHANGED <<resolver, pair, dec, mqtt, obs>>

(***************************************************************************)
(* The mailboxes in use: sensors_loop and pump_loop (src/src/bin/main.rs), *)
(* run_publisher_worker and run_receiver_worker (src/src/mqtt.rs).  The    *)
(* tasks run on one cooperative executor: a step is the code between two   *)
(* awaits.                                                                 *)
(***************************************************************************)
\* messages the producers create in one run
MaxMsgs == 7
\* messages the broker delivers in one run
MaxCmds == 6

TopicConfig == <<99>>
TopicState == <<115>>
TopicPump == <<112>>
\* what the broker can deliver on the command topic: text, or bytes that are no text
BrokerMsgs == {<<TopicPump, <<49>>>>, <<TopicPump, <<255>>>>}
\* core::str::from_utf8: Ok when the bytes are well-formed UTF-8.  A byte
\* below 0x80 is a character; a lead byte is followed by the continuation
\* bytes (0x80..0xBF) its character needs; a continuation byte belongs to the
\* character of the nearest lead byte before it; overlong forms, surrogates
\* and code points above U+10FFFF are refused through the range of the lead
\* byte and of the second byte
from_utf8(content) ==
    LET n == Len(content)
        IsCont(b) == b >= 128 /\ b < 192
        Width(b) == IF b < 128 THEN 1
                    ELSE IF b >= 194 /\ b <= 223 THEN 2
                    ELSE IF b >= 224 /\ b <= 239 THEN 3
                    ELSE IF b >= 240 /\ b <= 244 THEN 4
                    ELSE 0
        SecondOk(i) ==
            LET b == content[i] IN
            IF b = 224 THEN content[i + 1] >= 160
            ELSE IF b = 237 THEN content[i + 1] < 160
            ELSE IF b = 240 THEN content[i + 1] >= 144
            ELSE IF b = 244 THEN content[i + 1] < 144
            ELSE TRUE
        LeadOk(i) ==
            \E w \in {Width(content[i])} :
               /\ w > 0
               /\ \A j \in 1..(w - 1) : i + j <= n /\ IsCont(content[i + j])
               /\ SecondOk(i)
        Claimed(i) ==
            \E d \in 1..3 :
               /\ i - d >= 1
               /\ \A e \in 1..(d - 1) : IsCont(content[i - e])
               /\ Width(content[i - d]) > d
    IN IF \A i \in 1..n :
             \/ content[i] < 128
             \/ IF IsCont(content[i]) THEN Claimed(i) ELSE LeadOk(i)
       THEN Some(content) ELSE None

\* a message instance: the MqttMessage (unwrapped) and a serial number that
\* tells instances apart
Instance(m, id) == [id |-> id, topic |-> m.v.topic, content |-> m.v.content]

\* history of a mailbox: made counts the messages offered to it, acc those it
\* accepted (the n-th accepted instance has serial number n), deq lists the
\* serial numbers moved out of it, in order
NoHist == [made_out |-> 0, acc_out |-> 0, deq_out |-> <<>>,
           made_in |-> 0, acc_in |-> 0, deq_in |-> <<>>]

MqttInit ==
    /\ outbound = <<>>
    /\ inbound = <<>>
    /\ ppc = "check"
    /\ pmsg = None
    /\ vpc = "check"
    /\ spc = "start"
    /\ upc = "start"
    /\ pump_on = FALSE
    /\ hist = NoHist

\* mqtt_facade.send_message(MqttMessage::new(topic, content).unwrap()) on
\* st = [ch: OUTBOUND, h: history]
Enq(st, topic, content) ==
    LET id == st.h.acc_out + 1
        ch2 == send_message(st.ch, Instance(MqttMessage_new(topic, content), id))
        ok == Len(ch2) > 0 /\ ch2[Len(ch2)].id = id
    IN [ch |-> ch2,
        h |-> [st.h EXCEPT !.made_out = @ + 1,
                           !.acc_out = IF ok THEN id ELSE @]]

\* sensors_loop lines 159-170: the four discovery messages
S_start ==
    /\ spc = "start"
    /\ LET st == Enq(Enq(Enq(Enq([ch |-> outbound, h |-> hist],
                     TopicConfig, <<116>>), TopicConfig, <<104>>),
                     TopicConfig, <<109>>), TopicConfig, <<112>>)
       IN outbound' = st.ch /\ hist' = st.h
    /\ spc' = "loop"
    /\ UNCHANGED <<resolver, pair, dec, mk, inbound, ppc, pmsg, vpc, upc, pump_on, obs>>

\* sensors_loop lines 172-185: read the sensors, send the state, wait 10 s
S_loop ==
    /\ spc = "loop"
    /\ hist.made_out < MaxMsgs
    /\ LET st == Enq([ch |-> outbound, h |-> hist], TopicState, <<83>>)
       IN outbound' = st.ch /\ hist' = st.h
    /\ UNCHANGED <<resolver, pair, dec, mk, inbound, ppc, pmsg, vpc, spc, upc, pump_on, obs>>

\* pump_loop lines 195-200: discovery message, pump off
U_start ==
    /\ upc = "start"
    /\ LET st == Enq([ch |-> outbound, h |-> hist], TopicConfig, <<112>>)
       IN outbound' = st.ch /\ hist' = st.h
    /\ pump_on' = FALSE
    /\ upc' = "poll"
    /\ UNCHANGED <<resolver, pair, dec, mk, inbound, ppc, pmsg, vpc, spc, obs>>

\* HomeAssistantFacade::get_pump_state_mqtt_message (called at main.rs line
\* 214, not defined in home_assistant.rs): a state message whose payload
\* tells whether the pump is on
get_pump_state_mqtt_message(is_on) ==
    MqttMessage_new(TopicState, IF is_on THEN <<49>> ELSE <<48>>)

\* mutant: the command's payload says what the pump shall do
U_poll_by_content ==
    /\ upc = "poll"
    /\ LET r == poll_message(inbound) IN
       IF r.k = "some"
       THEN /\ hist.made_out < MaxMsgs
            /\ inbound' = r.v.rest
            /\ pump_on' = (r.v.msg.content = <<49>>)
            /\ \E message \in {get_pump_state_mqtt_message(pump_on')} :
               LET st == Enq([ch |-> outbound,
                              h |-> [hist EXCEPT !.deq_in = Append(@, r.v.msg.id)]],
                             message.v.topic, message.v.content)
               IN outbound' = st.ch /\ hist' = st.h
       ELSE UNCHANGED <<inbound, pump_on, outbound, hist>>
    /\ UNCHANGED <<resolver, pair, dec, mk, ppc, pmsg, vpc, spc, upc, obs>>

\* pump_loop lines 202-223: one cycle, which ends in the 2000 ms timer
U_poll ==
    /\ upc = "poll"
    /\ LET r == poll_message(inbound) IN
       IF r.k = "some"
       THEN /\ hist.made_out < MaxMsgs
            /\ inbound' = r.v.rest
            /\ pump_on' = ~pump_on
            /\ \E message \in {get_pump_state_mqtt_message(pump_on')} :
               LET st == Enq([ch |-> outbound,
                              h |-> [hist EXCEPT !.deq_in = Append(@, r.v.msg.id)]],
                             message.v.topic, message.v.content)
               IN outbound' = st.ch /\ hist' = st.h
       ELSE UNCHANGED <<inbound, pump_on, outbound, hist>>
    /\ UNCHANGED <<resolver, pair, dec, mk, ppc, pmsg, vpc, spc, upc, obs>>

\* mutant: the DHCP check is missing
P_check_no_dhcp ==
    /\ ppc = "check"
    /\ \E link_up \in BOOLEAN, config_v4 \in BOOLEAN :
          IF outbound = <<>> \/ ~link_up
          THEN ppc' = "wait500" /\ obs' = obs
          ELSE ppc' = "connect" /\ obs' = [obs EXCEPT !.p = Answers(link_up, config_v4)]
    /\ UNCHANGED <<resolver, pair, dec, mk, outbound, inbound, pmsg, vpc, spc, upc, pump_on, hist>>

\* mutant: the mailbox is not looked at before connecting
P_check_no_empty ==
    /\ ppc = "check"
    /\ \E link_up \in BOOLEAN, config_v4 \in BOOLEAN :
          IF ~link_up \/ ~config_v4
          THEN ppc' = "wait500" /\ obs' = obs
          ELSE ppc' = "connect" /\ obs' = [obs EXCEPT !.p = Answers(link_up, config_v4)]
    /\ UNCHANGED <<resolver, pair, dec, mk, outbound, inbound, pmsg, vpc, spc, upc, pump_on, hist>>

\* run_publisher_worker lines 108-129: readiness checks; a failed check waits
\* 500 ms (lines 110, 116, 124)
P_check ==
    /\ ppc = "check"
    /\ \E link_up \in BOOLEAN, config_v4 \in BOOLEAN :
          IF outbound = <<>> \/ ~link_up \/ ~config_v4
          THEN ppc' = "wait500" /\ obs' = obs
          ELSE ppc' = "connect" /\ obs' = [obs EXCEPT !.p = Answers(link_up, config_v4)]
    /\ UNCHANGED <<resolver, pair, dec, mk, outbound, inbound, pmsg, vpc, spc, upc, pump_on, hist>>

\* mutant: a failed connect ends the worker
P_connect_fatal ==
    /\ ppc = "connect"
    /\ ppc' \in {"handshake", "failed"}
    /\ obs' = [obs EXCEPT !.p = Answers(FALSE, FALSE)]
    /\ UNCHANGED <<resolver, pair, dec, mk, outbound, inbound, pmsg, vpc, spc, upc, pump_on, hist>>

\* lines 139-155: TCP connect
P_connect ==
    /\ ppc = "connect"
    /\ ppc' \in {"handshake", "wait500c"}
    /\ obs' = [obs EXCEPT !.p = Answers(FALSE, FALSE)]
    /\ UNCHANGED <<resolver, pair, dec, mk, outbound, inbound, pmsg, vpc, spc, upc, pump_on, hist>>

\* mutant: a failed handshake throws the waiting message away
P_handshake_consume ==
    /\ ppc = "handshake"
    /\ \/ ppc' = "dequeue" /\ outbound' = outbound
       \/ ppc' = "wait500c" /\ outbound # <<>> /\ outbound' = Tail(outbound)
    /\ UNCHANGED <<resolver, pair, dec, mk, inbound, pmsg, vpc, spc, upc, pump_on, hist, obs>>

\* mutant: a failed handshake ends the worker
P_handshake_fatal ==
    /\ ppc = "handshake"
    /\ ppc' \in {"dequeue", "failed"}
    /\ UNCHANGED <<resolver, pair, dec, mk, outbound, inbound, pmsg, vpc, spc, upc, pump_on, hist, obs>>

\* lines 157-182: connect_to_broker
P_handshake ==
    /\ ppc = "handshake"
    /\ ppc' \in {"dequeue", "wait500c"}
    /\ UNCHANGED <<resolver, pair, dec, mk, outbound, inbound, pmsg, vpc, spc, upc, pump_on, hist, obs>>

\* line 184: OUTBOUND.receive().await, waits while the channel is empty
P_dequeue ==
    /\ ppc = "dequeue"
    /\ LET r == try_receive(outbound) IN
       /\ r.k = "some"
       /\ pmsg' = Some(r.v.msg)
       /\ outbound' = r.v.rest
       /\ hist' = [hist EXCEPT !.deq_out = Append(@, r.v.msg.id)]
    /\ ppc' = "publish"
    /\ UNCHANGED <<resolver, pair, dec, mk, inbound, vpc, spc, upc, pump_on, obs>>

\* mutant: after a publish the worker takes the next message on the same
\* connection
P_publish_keep ==
    /\ ppc = "publish"
    /\ pmsg' = None
    /\ ppc' \in {"dequeue", "wait500p"}
    /\ UNCHANGED <<resolver, pair, dec, mk, outbound, inbound, vpc, spc, upc, pump_on, hist, obs>>

\* mutant: a message whose publish failed is queued again
P_publish_requeue ==
    /\ ppc = "publish"
    /\ pmsg' = None
    /\ \/ ppc' = "check" /\ outbound' = outbound
       \/ ppc' = "wait500p" /\ outbound' = send_message(outbound, pmsg.v)
    /\ UNCHANGED <<resolver, pair, dec, mk, inbound, vpc, spc, upc, pump_on, hist, obs>>

\* lines 190-204: the publish succeeds (back to the top of the loop) or fails
\* (500 ms wait, line 202); the message is gone either way
P_publish ==
    /\ ppc = "publish"
    /\ pmsg' = None
    /\ ppc' \in {"check", "wait500p"}
    /\ UNCHANGED <<resolver, pair, dec, mk, outbound, inbound, vpc, spc, upc, pump_on, hist, obs>>

\* the publisher's 500 ms waits: after a failed readiness check (lines 110,
\* 116, 124), after a failed connect or handshake (152, 179), after a failed
\* publish (202)
PWaits == {"wait500", "wait500c", "wait500p"}

\* Timer::after_millis(500).await, then continue / the end of the loop body
P_wait ==
    /\ ppc \in PWaits
    /\ ppc' = "check"
    /\ UNCHANGED <<resolver, pair, dec, mk, outbound, inbound, pmsg, vpc, spc, upc, pump_on, hist, obs>>

\* run_receiver_worker lines 216-231: readiness checks
V_check ==
    /\ vpc = "check"
    /\ \E link_up \in BOOLEAN, config_v4 \in BOOLEAN :
          IF ~link_up \/ ~config_v4
          THEN vpc' = "wait500" /\ obs' = obs
          ELSE vpc' = "connect" /\ obs' = [obs EXCEPT !.v = Answers(link_up, config_v4)]
    /\ UNCHANGED <<resolver, pair, dec, mk, outbound, inbound, ppc, pmsg, spc, upc, pump_on, hist>>

\* lines 241-257
V_connect ==
    /\ vpc = "connect"
    /\ vpc' \in {"handshake", "wait500"}
    /\ obs' = [obs EXCEPT !.v = Answers(FALSE, FALSE)]
    /\ UNCHANGED <<resolver, pair, dec, mk, outbound, inbound, ppc, pmsg, spc, upc, pump_on, hist>>

\* lines 259-284
V_handshake ==
    /\ vpc = "handshake"
    /\ vpc' \in {"subscribe", "wait500"}
    /\ UNCHANGED <<resolver, pair, dec, mk, outbound, inbound, ppc, pmsg, spc, upc, pump_on, hist, obs>>

\* lines 286-295
V_subscribe ==
    /\ vpc = "subscribe"
    /\ vpc' \in {"receive", "wait100"}
    /\ UNCHANGED <<resolver, pair, dec, mk, outbound, inbound, ppc, pmsg, spc, upc, pump_on, hist, obs>>

\* mutant: the payload is taken as text without looking at it
V_received_unchecked(b) ==
    /\ vpc = "receive"
    /\ hist.made_in < MaxCmds
    /\ \E id \in {hist.acc_in + 1}, message \in {MqttMessage_new(b[1], b[2])} :
       \E sent \in {IF message.k = "some"
                    THEN try_send(inbound, Instance(message, id), IN_CAP)
                    ELSE None} :
          /\ inbound' = IF sent.k = "some" THEN sent.v ELSE inbound
          /\ hist' = [hist EXCEPT
                        !.made_in = @ + 1,
                        !.acc_in = IF sent.k = "some" THEN id ELSE @]
    /\ vpc' = "check"
    /\ UNCHANGED <<resolver, pair, dec, mk, outbound, ppc, pmsg, spc, upc, pump_on, obs>>

\* lines 297-318, Ok((topic, content)) branch: receive_message has returned
\* the message b = <<topic, content>>; the loop body ends after the match
V_received(b) ==
    /\ vpc = "receive"
    /\ hist.made_in < MaxCmds
    /\ \E id \in {hist.acc_in + 1}, text \in {from_utf8(b[2])} :
       \E message \in {IF text.k = "some" THEN MqttMessage_new(b[1], text.v) ELSE None} :
       \E sent \in {IF message.k = "some"
                    THEN try_send(inbound, Instance(message, id), IN_CAP)
                    ELSE None} :
          /\ inbound' = IF sent.k = "some" THEN sent.v ELSE inbound
          /\ hist' = [hist EXCEPT
                        !.made_in = @ + 1,
                        !.acc_in = IF sent.k = "some" THEN id ELSE @]
    /\ vpc' = "check"
    /\ UNCHANGED <<resolver, pair, dec, mk, outbound, ppc, pmsg, spc, upc, pump_on, obs>>

\* lines 297-324, Ok branch: a message arrives from the broker
V_receive == \E b \in BrokerMsgs : V_received(b)

\* what a broker can deliver besides: topics and payloads at and one byte
\* over the capacities, payloads that are text with a two-byte character,
\* and payloads that are no text (a lone continuation byte, a two-byte
\* character cut short, an overlong form, one continuation byte too many)
WideMsgs ==
    LET LongTopic == Str(MAX_TOPIC, 112)
        LongText == Str(MAX_PAYLOAD - 2, 49) \o <<195, 169>>
    IN BrokerMsgs \cup
       { <<TopicPump, <<195, 169>>>>, <<LongTopic, LongText>>,
         <<TopicPump, <<169>>>>, <<TopicPump, <<49, 195>>>>,
         <<TopicPump, <<192, 175>>>>, <<TopicPump, <<195, 169, 169>>>>,
         <<LongTopic \o <<112>>, <<49>>>>, <<LongTopic \o <<112>>, <<255>>>>,
         <<TopicPump, <<49>> \o LongText>>, <<TopicPump, Str(MAX_PAYLOAD + 1, 49)>>,
         <<LongTopic, Str(MAX_PAYLOAD - 1, 49) \o <<255>>>>,
         <<LongTopic \o <<112>>, <<49>> \o LongText>> }
\* the same branch with the wider deliveries
V_receive_wide == \E b \in WideMsgs : V_received(b)

\* lines 319-323: receive_message fails, 100 ms wait
V_receive_err ==
    /\ vpc = "receive"
    /\ vpc' = "wait100"
    /\ UNCHANGED <<resolver, pair, dec, mk, outbound, inbound, ppc, pmsg, spc, upc, pump_on, hist, obs>>

\* Timer::after_millis(500 / 100).await, then continue
\* (lines 218-219, 226-227, 254-255, 281-282, 292-293, 321-322)
V_wait ==
    /\ vpc \in {"wait500", "wait100"}
    /\ vpc' = "check"
    /\ UNCHANGED <<resolver, pair, dec, mk, outbound, inbound, ppc, pmsg, spc, upc, pump_on, hist, obs>>

(***************************************************************************)
(* Specifications.                                                         *)
(***************************************************************************)
\* the resolver
Init ==
    /\ ResolverInit /\ pair = PairIdle /\ dec = NoDec /\ mk = NoMk /\ MqttInit
Next == PollLink \/ Join \/ SendQuery \/ RecvOk \/ RecvErr \/ Pace
Spec == Init /\ [][Next]_vars
\* the resolver's task runs when its timers fire (Pace) and sends without
\* waiting for the network (SendQuery); when a datagram arrives, or whether
\* one ever does (RecvOk, RecvErr), is not the resolver's to decide
SpecFair == Spec /\ WF_vars(SendQuery) /\ WF_vars(Pace)

\* parse_with_state on two packets, both orders
InitPair == ResolverInit /\ PairInit /\ dec = NoDec /\ mk = NoMk /\ MqttInit
NextPair == PairFirst \/ PairSecond
SpecPair == InitPair /\ [][NextPair]_vars

\* the decoder functions on one buffer
InitDecode == ResolverInit /\ pair = PairIdle /\ DecInit /\ mk = NoMk /\ MqttInit
NextDecode == DecSrv \/ DecA \/ DecRdata \/ DecSkip \/ DecName
SpecDecode == InitDecode /\ [][NextDecode]_vars

\* MqttMessage::new on one pair of strings
InitMsg == ResolverInit /\ pair = PairIdle /\ dec = NoDec /\ MkInit /\ MqttInit
NextMsg == MkNew
SpecMsg == InitMsg /\ [][NextMsg]_vars

\* the mailboxes, their producers and consumers, and the two workers
InitMqtt ==
    /\ ResolverInit /\ pair = PairIdle /\ dec = NoDec /\ mk = NoMk /\ MqttInit
NextMqtt ==
    \/ S_start \/ S_loop \/ U_start \/ U_poll
    \/ P_check \/ P_connect \/ P_handshake \/ P_dequeue \/ P_publish \/ P_wait
    \/ V_check \/ V_connect \/ V_handshake \/ V_subscribe \/ V_receive \/ V_receive_err
    \/ V_wait
SpecMqtt == InitMqtt /\ [][NextMqtt]_vars

\* the receiver worker and the consumer of its mailbox, with the wider
\* deliveries; the publisher and sensors_loop are not scheduled
NextRecv ==
    \/ V_check \/ V_connect \/ V_handshake \/ V_subscribe \/ V_receive_wide
    \/ V_receive_err \/ V_wait \/ U_start \/ U_poll
SpecRecv == InitMqtt /\ [][NextRecv]_vars

\* the outbound mailbox, the producers that need no command (sensors_loop and
\* the start of pump_loop) and the publisher
NextOut ==
    \/ S_start \/ S_loop \/ U_start
    \/ P_check \/ P_connect \/ P_handshake \/ P_dequeue \/ P_publish \/ P_wait
\* the executor runs the publisher when its timer has fired (P_wait), when a
\* message is there for it (P_dequeue) and when the publish call returns
\* (P_publish); the network is such that a readiness check with a message
\* waiting, a connect and a handshake, tried again and again, succeed
SpecOutFair ==
    /\ InitMqtt /\ [][NextOut]_vars
    /\ WF_vars(P_wait) /\ WF_vars(P_dequeue) /\ WF_vars(P_publish)
    /\ SF_vars(P_check /\ ppc' = "connect")
    /\ SF_vars(P_connect /\ ppc' = "handshake")
    /\ SF_vars(P_handshake /\ ppc' = "dequeue")

\* the steps of each worker
P_step == P_check \/ P_connect \/ P_handshake \/ P_dequeue \/ P_publish \/ P_wait
V_step ==
    \/ V_check \/ V_connect \/ V_handshake \/ V_subscribe \/ V_receive \/ V_receive_err
    \/ V_wait
\* the executor runs a task whose timer has fired, and the retry timers
\* (Timer::after_millis) always fire
SpecMqttFair == SpecMqtt /\ WF_vars(P_wait) /\ WF_vars(V_wait)

(***************************************************************************)
(* Properties.                                                             *)
(***************************************************************************)
InLoop(pc) == pc \in {"send", "recv", "pace", "hung"}

\* C1: query_service returns only a pair with non-zero port and non-zero
\* address, whatever datagrams were received, and returning such a pair is
\* the only way the query/listen loop is left.
C1_ResultIsComplete ==
    /\ [](rpc = "resolved" =>
            /\ returned.k = "some"
            /\ returned.v[2] # 0
            /\ returned.v[1] # <<0, 0, 0, 0>>)
    /\ [][(InLoop(rpc) /\ ~InLoop(rpc')) =>
            /\ rpc' = "resolved"
            /\ returned'.k = "some"
            /\ returned'.v[2] # 0
            /\ returned'.v[1] # <<0, 0, 0, 0>>]_vars
\* a cross-packet result is returned after a datagram with port 0 or address
\* 0.0.0.0 gave a pair with a zero component that was not returned
C1_Witness ==
    /\ rpc = "resolved"
    /\ nrecv = 3
    /\ last.via \in {"srv_cached_ip", "a_match"}
    /\ cache.port = Some(0) \/ cache.ip = Some(ZeroIp)

\* C2: order independence: an SRV-only and an A-only datagram processed from
\* an empty cache less than 30000 ms apart give the same result in both orders.
C2_OrderIndependent ==
    (pair.phase = "done" /\ pair.gap < 30000) =>
        <<pair.r1.ip, pair.r1.port>> = <<pair.r2.ip, pair.r2.port>>

\* C3: SRV first: from an empty cache, an SRV-only datagram (target H, port P)
\* and then, at most 30000 ms later, an A-only datagram named H with address
\* X: the second call returns exactly (X, P).
C3_SrvFirst ==
    (/\ pair.phase = "done"
     /\ pair.gap <= 30000
     /\ AName[pair.a] = SrvTarget[pair.s]) =>
        /\ pair.r1.k = "ret"
        /\ pair.r1.ip = AAddr[pair.a]
        /\ pair.r1.port = SrvPort[pair.s]
C3_Witness ==
    /\ pair.phase = "done"
    /\ pair.gap = 30000
    /\ pair.s = 1 /\ pair.a = 3
    /\ pair.r1.ip = IpX /\ pair.r1.port = PortP
    /\ pair.r1.via = "a_match"

\* C4: a datagram that carries an SRV record (target H, non-zero port P) and
\* an A record named H with non-zero address X makes a single
\* parse_with_state call return exactly (X, P), whatever the cache holds.
BundledIds == {5}
C4_SinglePacket ==
    (last.n > 0 /\ last.p \in BundledIds) =>
        /\ last.k = "ret"
        /\ last.ip = IpX
        /\ last.port = PortP
\* the cache held another host's address and an SRV record when it arrived
C4_Witness ==
    /\ last.n > 0 /\ last.p \in BundledIds
    /\ last.mid.ip = Some(IpY)
    /\ last.mid.hostname = Some(HostA)
    /\ last.ip = IpX /\ last.port = PortP

\* C5: at the start of every parse_with_state call, a cache whose timestamp
\* is more than 30000 ms old is cleared entirely (hostname, port, address,
\* timestamp) before the datagram is looked at, so nothing of it is used or
\* kept; at an age of 30000 ms or less the cache is left as it is.
C5_Eviction ==
    [][last'.n # last.n =>
        LET stale == cache.time.k = "some" /\ now' - cache.time.v > 30000 IN
        /\ stale => /\ last'.mid = [hostname |-> None, port |-> None,
                                    ip |-> None, time |-> None]
                    /\ last'.via # "srv_cached_ip"
                    /\ cache'.time.k = "some" => cache'.time.v = now'
        /\ ~stale => last'.mid = cache]_vars
\* a call that found the cache 30001 ms old and cleared an SRV record
C5_Witness ==
    /\ last.n > 0
    /\ last.age = 30001
    /\ last.mid = NoCache
    /\ last.p \in AOnlyIds
    /\ cache.hostname = None /\ cache.ip # None

\* C6: no stale correlation: when a call returns a cross-packet result, the
\* cached component it used was stored at most 30000 ms before the call; an
\* A datagram more than 30000 ms after the SRV datagram does not complete
\* the resolution.
C6_NoStaleCorrelation ==
    (last.n > 0 /\ last.via \in {"srv_cached_ip", "a_match"}) =>
        /\ last.used_at >= 0
        /\ last.at - last.used_at <= 30000
C6_Witness ==
    /\ last.n > 1
    /\ last.via = "a_match"
    /\ last.at - last.used_at = 30000

\* C7: on every buffer, parse_srv_record, parse_a_record, parse_srv_rdata,
\* skip_dns_name and parse_dns_name read no index at or beyond the buffer
\* length, and a name with a label length that claims more bytes than the
\* buffer holds yields no value.
\* a literal label reached from off by literal labels runs past the buffer
RECURSIVE LabelOverrun(_, _)
LabelOverrun(buf, off) ==
    /\ off < Len(buf)
    /\ buf[off + 1] # 0
    /\ buf[off + 1] < 192
    /\ \/ off + 1 + buf[off + 1] > Len(buf)
       \/ LabelOverrun(buf, off + 1 + buf[off + 1])
C7_MalformedSafe ==
    dec.fn \notin {"off", "none"} =>
        /\ dec.out.k # "panic"
        /\ (dec.fn \in {"skip", "name"} /\ LabelOverrun(dec.buf, dec.off))
              => dec.out.k = "none"
        /\ (/\ dec.fn = "rdata"
            /\ LabelOverrun(dec.buf, dec.off + 6))
              => dec.out.k = "none"
        /\ (/\ dec.fn \in {"srv", "a"}
            /\ Len(dec.buf) >= 12
            /\ dec.buf[5] = 0 /\ dec.buf[6] = 0
            /\ LabelOverrun(dec.buf, 12))
              => dec.out.k = "none"
\* parse_dns_name on a truncated packet, started at a name cut by the end
C7_Witness ==
    /\ dec.fn = "name"
    /\ dec.buf \in Truncations(RichPkt)
    /\ dec.off >= 12
    /\ LabelOverrun(dec.buf, dec.off)
    /\ dec.out.k = "none"

\* C8: send_message on a mailbox that holds 5 messages drops the new message
\* without blocking and leaves the 5 held messages as they are; dequeues
\* take the held messages from the front, in order; each mailbox always
\* holds between 0 and 5 messages.
C8_Backpressure ==
    /\ [](/\ Len(outbound) \in 0..5
          /\ Len(inbound) \in 0..5
          /\ (Len(outbound) = 5 /\ spc = "loop" /\ hist.made_out < MaxMsgs)
                => ENABLED S_loop)
    /\ [][(Len(outbound) = 5 /\ hist'.made_out > hist.made_out) =>
            /\ outbound' = outbound
            /\ hist'.acc_out = hist.acc_out]_vars
    /\ [][(ppc = "dequeue" /\ ppc' # ppc) =>
            /\ pmsg' = Some(Head(outbound))
            /\ outbound' = Tail(outbound)]_vars
\* a message was dropped and the mailbox still holds five
C8_Witness ==
    /\ hist.made_out > hist.acc_out
    /\ Len(outbound) = 5
    /\ hist.deq_out = <<>>

\* C9: under every interleaving of producers, workers and pump_loop, the
\* messages moved out of a mailbox are a prefix of the messages accepted
\* into it, in acceptance order, each moved out at most once; the mailbox
\* holds exactly the accepted messages not yet moved out, in order.
Ids(ch) == [i \in 1..Len(ch) |-> ch[i].id]
Range(lo, n) == [i \in 1..n |-> lo + i]
C9_FifoOnce ==
    /\ hist.deq_out = Range(0, Len(hist.deq_out))
    /\ Len(hist.deq_out) + Len(outbound) = hist.acc_out
    /\ Ids(outbound) = Range(Len(hist.deq_out), Len(outbound))
    /\ hist.deq_in = Range(0, Len(hist.deq_in))
    /\ Len(hist.deq_in) + Len(inbound) = hist.acc_in
    /\ Ids(inbound) = Range(Len(hist.deq_in), Len(inbound))
C9_Witness ==
    /\ Len(hist.deq_out) >= 2
    /\ Len(hist.deq_in) >= 2
    /\ Len(outbound) >= 2
    /\ Len(inbound) >= 1

\* C10: MqttMessage::new returns a message if and only if the topic is at
\* most 64 bytes and the payload at most 512 bytes, and then topic and
\* content are the inputs, never truncated.
C10_BoundedFields ==
    mk.called =>
        /\ mk.out.k = "some" <=> (Len(mk.topic) <= 64 /\ Len(mk.content) <= 512)
        /\ mk.out.k = "some" =>
              /\ mk.out.v.topic = mk.topic
              /\ mk.out.v.content = mk.content
\* a 65-byte topic with a payload that fits gives no message
C10_Witness ==
    /\ mk.called
    /\ Len(mk.topic) = 65
    /\ Len(mk.content) = 512
    /\ mk.out.k = "none"

\* C11: the workers always retry: in every state each worker has a next
\* step; a connect, handshake, publish, subscribe or receive either succeeds
\* or leads to a timer wait (500 ms, or 100 ms after a failed subscribe or
\* receive); the step after the wait is the readiness check, and the wait
\* always ends.
C11_WorkersRetry ==
    /\ [](ENABLED P_step /\ ENABLED V_step)
    /\ [][(ppc \in {"connect", "handshake", "publish"} /\ ppc' # ppc) =>
            \/ ppc' \in PWaits
            \/ <<ppc, ppc'>> \in {<<"connect", "handshake">>,
                                  <<"handshake", "dequeue">>,
                                  <<"publish", "check">>}]_vars
    /\ [][(vpc \in {"connect", "handshake", "subscribe", "receive"} /\ vpc' # vpc) =>
            \/ vpc' = (IF vpc \in {"subscribe", "receive"} THEN "wait100" ELSE "wait500")
            \/ <<vpc, vpc'>> \in {<<"connect", "handshake">>,
                                  <<"handshake", "subscribe">>,
                                  <<"subscribe", "receive">>,
                                  <<"receive", "check">>}]_vars
    /\ [][(ppc \in PWaits /\ ppc' # ppc) => ppc' = "check"]_vars
    /\ [][(vpc \in {"wait500", "wait100"} /\ vpc' # vpc) => vpc' = "check"]_vars
    /\ (ppc \in PWaits) ~> (ppc = "check")
    /\ (vpc \in {"wait500", "wait100"}) ~> (vpc = "check")
\* both workers wait after a failure that came after a successful connect
C11_Witness ==
    /\ ppc = "wait500p"
    /\ pmsg = None /\ Len(hist.deq_out) > 0
    /\ vpc = "wait100"
    /\ hist.made_in > 0

\* C12: query re-emission does not depend on a datagram arriving: the
\* receive step ends after a poll slice at the latest, so the resolver always
\* gets from its receive step back to the point where it re-sends a due query.
\* (Stated of receive steps that the bound on datagrams has not closed.)
C12_Resend == (rpc = "recv" /\ nrecv < MaxRecv) ~> (rpc # "recv")

P_connected == ppc \in {"handshake", "dequeue", "publish"}
V_connected == vpc \in {"handshake", "subscribe", "receive"}
C14_NoPersistentSession ==
    /\ [][(ppc' # ppc /\ P_connected') =>
            <<ppc, ppc'>> \in {<<"connect", "handshake">>,
                               <<"handshake", "dequeue">>,
                               <<"dequeue", "publish">>}]_vars
    /\ [][(ppc = "publish" /\ ppc' # ppc) => ~P_connected']_vars
    /\ [][(vpc' # vpc /\ V_connected') =>
            <<vpc, vpc'>> \in {<<"connect", "handshake">>,
                               <<"handshake", "subscribe">>,
                               <<"subscribe", "receive">>}]_vars
    /\ [][(vpc = "receive" /\ vpc' # vpc) => ~V_connected']_vars
\* the second publish and the second receive, each on a connection of its own
C14_Witness ==
    /\ ppc = "publish"
    /\ Len(hist.deq_out) = 2
    /\ vpc = "receive"
    /\ hist.made_in = 1

\* C15: readiness gating.  The publisher gets to its TCP connect only from
\* a readiness check that found the outbound mailbox non-empty and was
\* answered link up and IPv4 configuration present; any other check leads to
\* the 500 ms wait and then to the check again.  The receiver gets to its
\* connect only from a check answered link up and configuration present, and
\* otherwise waits 500 ms; the mailboxes play no part in it.
C15_ReadinessGating ==
    /\ [](ppc = "connect" => (outbound # <<>> /\ obs.p.link /\ obs.p.dhcp))
    /\ [](vpc = "connect" => (obs.v.link /\ obs.v.dhcp))
    /\ [][(ppc' = "connect" /\ ppc # "connect") => ppc = "check"]_vars
    /\ [][(vpc' = "connect" /\ vpc # "connect") => vpc = "check"]_vars
    /\ [][(ppc = "check" /\ ppc' \notin {"check", "connect"}) => ppc' = "wait500"]_vars
    /\ [][(vpc = "check" /\ vpc' \notin {"check", "connect"}) => vpc' = "wait500"]_vars
    /\ [][(ppc = "check" /\ outbound = <<>> /\ ppc' # ppc) => ppc' = "wait500"]_vars
\* the receiver goes to connect with the outbound mailbox empty and the
\* inbound mailbox full, while the publisher waits on the empty mailbox
C15_Witness ==
    /\ vpc = "connect"
    /\ Len(inbound) = 5
    /\ outbound = <<>>
    /\ ppc = "wait500"

\* C16: resolver phase ordering.  query_service leaves its waiting phase only
\* on a poll answered link up and IPv4 configuration present, and then joins
\* and binds; while waiting it sends nothing, receives nothing and only lets
\* 400 ms pass per poll; the first query follows the join; the waiting phase
\* is never entered again.
C16_PhaseOrdering ==
    /\ [](rpc # "wait_link" => (obs.r.link /\ obs.r.dhcp))
    /\ [](rpc \in {"wait_link", "join"} => (last_query = None /\ nrecv = 0))
    /\ [][(rpc = "wait_link" /\ rpc' = rpc) =>
            (now' \in {now, now + 400}
             /\ UNCHANGED <<deadline, last_query, cache, nrecv, returned>>)]_vars
    /\ [][(rpc = "wait_link" /\ rpc' # rpc) => rpc' = "join"]_vars
    /\ [][(rpc = "join" /\ rpc' # rpc) => rpc' \in {"send", "panicked"}]_vars
    /\ [][(last_query = None /\ last_query' # None) => rpc = "send"]_vars
    /\ [][rpc # "wait_link" => rpc' # "wait_link"]_vars
\* one poll found the network not ready, the next one did, and the first
\* query went out after the join
C16_Witness ==
    /\ rpc = "recv"
    /\ now = 400
    /\ last_query = Some(400)
    /\ nrecv = 0

\* C18: a result that parse_with_state assembles from two datagrams (the
\* address of an A record, the port of an SRV record) pairs records of one
\* host: the name of the A record is the target of the SRV record, in
\* whichever order the two arrived.
C18_MatchingOnly ==
    pair.phase = "done" =>
        /\ pair.r1.via = "a_match" => AName[pair.a] = SrvTarget[pair.s]
        /\ pair.r2.via = "srv_cached_ip" => AName[pair.a] = SrvTarget[pair.s]

AfterSrvStep(d, current_time, mid) ==
    IF d.srv.k = "some"
    THEN [mid EXCEPT !.hostname = Some(d.srv.v[1]), !.port = Some(d.srv.v[2]),
                     !.time = Some(current_time)]
    ELSE mid
AStepOk(d, current_time, c1, r_ip, r_port, r_cache) ==
    IF c1.hostname.k = "some" /\ c1.port.k = "some" /\ d.a.v[1] = c1.hostname.v
    THEN /\ r_ip = d.a.v[2]
         /\ r_port = c1.port.v
         /\ r_cache = c1
    ELSE /\ r_cache.ip = Some(d.a.v[2])
         /\ r_cache.time = (IF c1.time.k = "none" THEN Some(current_time) ELSE c1.time)
         /\ r_cache.hostname = c1.hostname
         /\ r_cache.port = c1.port
C20_AStep ==
    [][(/\ last'.n # last.n
        /\ last'.k = "ret"
        /\ ~Complete(Decoded[last'.p].q[1], Decoded[last'.p].q[2])
        /\ ~(Decoded[last'.p].srv.k = "some" /\ last'.mid.ip.k = "some")
        /\ Decoded[last'.p].a.k = "some") =>
            AStepOk(Decoded[last'.p], now',
                    AfterSrvStep(Decoded[last'.p], now', last'.mid),
                    last'.ip, last'.port, cache')]_vars
\* the address of b.l replaced the cached address of a.l and the older
\* timestamp stayed
C20_Witness ==
    /\ last.n > 0 /\ last.p = 4
    /\ last.mid.ip = Some(IpX)
    /\ last.mid.hostname = None
    /\ cache.ip = Some(IpY)
    /\ cache.time = last.mid.time
    /\ cache.time.k = "some" /\ cache.time.v < last.at

\* C21 (as claimed): the steps are tried in the order bundled, SRV, A, and
\* the A record is looked for only when the datagram has no SRV record: a
\* call that finds and stores an SRV record changes only hostname, port and
\* timestamp and returns the not-yet-resolved pair.
SrvStored(p, mid, k) ==
    /\ k = "ret"
    /\ ~Complete(Decoded[p].q[1], Decoded[p].q[2])
    /\ Decoded[p].srv.k = "some"
    /\ mid.ip.k = "none"
C21_ShortCircuit ==
    [][(last'.n # last.n /\ SrvStored(last'.p, last'.mid, last'.k)) =>
          /\ cache'.ip = last'.mid.ip
          /\ last'.via = "fallthrough"
          /\ <<last'.ip, last'.port>> = Decoded[last'.p].q]_vars
\* C21 (amended): the steps are tried in the order bundled, SRV, A, and the A
\* step follows whenever the SRV step did not return.  A call that finds and
\* stores an SRV record (target H, port P) sets hostname, port and timestamp;
\* if the datagram also has an A record (name N, address X) it then returns
\* (X, P) when N = H and otherwise stores X as the address; without a match
\* it returns the not-yet-resolved pair of the bundled attempt.
C21_Sequential ==
    [][(last'.n # last.n /\ SrvStored(last'.p, last'.mid, last'.k)) =>
          /\ cache'.hostname = Some(Decoded[last'.p].srv.v[1])
          /\ cache'.port = Some(Decoded[last'.p].srv.v[2])
          /\ cache'.time = Some(now')
          /\ IF Decoded[last'.p].a.k = "some"
             THEN IF Decoded[last'.p].a.v[1] = Decoded[last'.p].srv.v[1]
                  THEN /\ <<last'.ip, last'.port>> =
                             <<Decoded[last'.p].a.v[2], Decoded[last'.p].srv.v[2]>>
                       /\ cache'.ip = None
                  ELSE /\ cache'.ip = Some(Decoded[last'.p].a.v[2])
                       /\ <<last'.ip, last'.port>> = Decoded[last'.p].q
             ELSE /\ cache'.ip = None
                  /\ <<last'.ip, last'.port>> = Decoded[last'.p].q]_vars
\* a datagram with an SRV record for a.l and an A record for b.l left both
\* the SRV data and the address in the cache
C21_Witness ==
    /\ last.n > 0 /\ last.p = 8
    /\ last.mid.ip = None
    /\ cache.hostname = Some(HostA)
    /\ cache.port = Some(PortP)
    /\ cache.ip = Some(IpY)
    /\ cache.time = Some(last.at)
    /\ rpc = "pace"

\* C22: a bundled result leaves the cache alone: when the single-packet
\* parse yields a non-zero port and a non-zero address, parse_with_state
\* returns that pair, and hostname, port, address and timestamp are as the
\* eviction check left them (cleared if older than 30000 ms, else untouched).
C22_BundledLeavesCache ==
    [][(/\ last'.n # last.n
        /\ Complete(Decoded[last'.p].q[1], Decoded[last'.p].q[2])) =>
          /\ last'.k = "ret"
          /\ <<last'.ip, last'.port>> = Decoded[last'.p].q
          /\ cache' = (IF last'.age > CacheTimeout THEN NoCache ELSE cache)
          /\ cache' = last'.mid]_vars
\* the bundled result for a.l arrived while SRV data for b.l and an address
\* were pending, and they are still cached after the call
C22_Witness ==
    /\ rpc = "resolved"
    /\ last.via = "bundled"
    /\ returned = Some(<<IpX, PortP>>)
    /\ cache.hostname = Some(HostB)
    /\ cache.port = Some(PortQ)
    /\ cache.ip = Some(IpX)
    /\ cache.time.k = "some" /\ cache.time.v < last.at

\* C23: cache shape: between parse_with_state calls the timestamp is absent
\* exactly when hostname, port and address are all absent, and the hostname
\* is present exactly when the port is.
C23_CacheShape ==
    /\ cache.time.k = "none" <=>
          (cache.hostname.k = "none" /\ cache.port.k = "none" /\ cache.ip.k = "none")
    /\ cache.hostname.k = "some" <=> cache.port.k = "some"
\* a call that evicted an expired entry and then stored an address
C23_Witness ==
    /\ last.n > 1
    /\ last.age > CacheTimeout
    /\ last.mid = NoCache
    /\ cache.ip.k = "some"
    /\ cache.hostname = None /\ cache.port = None
    /\ cache.time = Some(last.at)

\* C24: decoder termination: on every buffer and start offset parse_dns_name
\* and skip_dns_name end with a value or with no value, and so do
\* parse_srv_rdata, parse_srv_record and parse_a_record, also on names with
\* compression pointers.
C24_DecoderTerminates ==
    dec.fn \notin {"off", "none"} => dec.out.k # "diverge"

\* C25: the answer scan returns the first wanted record: on a well-formed
\* response parse_a_record returns the name and the 4 address bytes of the
\* first answer record with TYPE 1 and RDLENGTH 4, and parse_srv_record the
\* target and port of the first answer record with TYPE 33, whatever the
\* names, types and lengths of the records before it (each skipped by its
\* RDLENGTH) and with questions skipped as name + 4 bytes.
FirstRec(recs, wanted) ==
    IF wanted = {} THEN 0 ELSE CHOOSE i \in wanted : \A j \in wanted : i <= j
ExpectedA(c) ==
    LET i == FirstRec(c.recs, {k \in DOMAIN c.recs :
                                  c.recs[k].type = 1 /\ Len(c.recs[k].rdata) = 4})
    IN IF i = 0 THEN None
       ELSE Some(<<Dotted(c.recs[i].name), c.recs[i].rdata>>)
ExpectedSrv(c) ==
    LET i == FirstRec(c.recs, {k \in DOMAIN c.recs : c.recs[k].type = 33})
    IN IF i = 0 THEN None
       ELSE Some(<<Dotted(c.recs[i].target), c.recs[i].port>>)
C25_FirstWanted ==
    (dec.fn \in {"a", "srv"} /\ dec.buf \in ScanBufs) =>
        \A c \in ScanCases :
            Build(c) = dec.buf =>
                /\ dec.fn = "a" => dec.out = ExpectedA(c)
                /\ dec.fn = "srv" => dec.out = ExpectedSrv(c)

\* C26: RDLENGTH validation.  parse_a_record never returns an address taken
\* from a TYPE 1 record whose RDLENGTH is not 4; parse_srv_rdata, and with it
\* parse_srv_record on the SRV record it finds, returns no value when
\* RDLENGTH is below 6 or the resource data runs past the end of the buffer;
\* an accepted SRV record yields the big-endian port at bytes 4-5 of the
\* resource data and the name that starts at byte 6.
\* RichPkt with the low byte of the SRV record's RDLENGTH overwritten
SrvLenFuzz == {[RichPkt EXCEPT ![TargetOff - 6] = b] : b \in FuzzBytes}
C26_RdLength ==
    /\ (dec.fn = "a" /\ dec.buf \in ScanBufs /\ dec.out.k = "some") =>
          \A c \in ScanCases :
              Build(c) = dec.buf =>
                  \E k \in DOMAIN c.recs :
                      /\ c.recs[k].type = 1
                      /\ Len(c.recs[k].rdata) = 4
                      /\ dec.out.v = <<Dotted(c.recs[k].name), c.recs[k].rdata>>
    /\ dec.fn = "rdata" =>
          /\ (dec.rdl < 6 \/ dec.off + dec.rdl > Len(dec.buf)) => dec.out = None
          /\ dec.out.k = "some" =>
                dec.out.v[2] = dec.buf[dec.off + 5] * 256 + dec.buf[dec.off + 6]
          /\ (dec.buf = RichPkt /\ dec.off = TargetOff - 6 /\ dec.rdl >= 6) =>
                dec.out = Some(<<HostA, PortP>>)
    /\ (dec.fn = "srv" /\ dec.buf \in SrvLenFuzz) => dec.out = None
    /\ (dec.fn = "srv" /\ dec.buf \in Truncations(Packets[1])) =>
          dec.out = (IF dec.buf = Packets[1] THEN Some(<<HostA, PortP>>) ELSE None)
\* the A scan passed over a TYPE 1 record of 5 bytes and returned the A
\* record behind it
C26_Witness ==
    /\ dec.fn = "a"
    /\ dec.buf = Build([qd |-> 1, recs |-> <<RecA5, RecA1, RecA2>>])
    /\ dec.out = Some(<<HostA, IpX>>)

\* C27: name expansion.  parse_dns_name returns the labels in order, joined
\* by one '.' with none before the first, follows a compression pointer to
\* the 14-bit offset made of the low six bits and the next byte, stops at a
\* zero length byte, and returns no value, never a shortened name, when the
\* expanded name does not fit in 64 bytes.
ExpectedName(labels) ==
    IF labels = <<>> THEN None
    ELSE IF Utf8Len(Dotted(labels)) > NameCap THEN None
    ELSE Some(Dotted(labels))
C27_NameExpansion ==
    dec.fn = "name" =>
        /\ (dec.off = 0 /\ dec.buf \in NameBufs) =>
              \A ls \in NameCases : WireName(ls) = dec.buf => dec.out = ExpectedName(ls)
        /\ (dec.buf = RichPkt /\ dec.off = RichPtrOff) => dec.out = Some(HostA)
        /\ (dec.buf = BigPkt /\ dec.off = BigNameOff) => dec.out = Some(HostA)
        /\ (dec.buf = BigPkt /\ dec.off = BigPtrOff) => dec.out = Some(HostB)
        /\ dec.out.k = "some" => Utf8Len(dec.out.v) <= NameCap
\* a name of exactly 64 bytes with its two separators came back whole
C27_Witness ==
    /\ dec.fn = "name"
    /\ dec.off = 0
    /\ dec.buf = WireName(<<LongLabel, LongLabel, Label(20, 120)>>)
    /\ dec.out.k = "some"
    /\ Len(dec.out.v) = NameCap
    /\ dec.out.v[22] = 46 /\ dec.out.v[44] = 46

\* C28: a failed connect or handshake consumes nothing: the publisher takes
\* a message out of the outbound mailbox only at its dequeue step, which it
\* reaches only from a successful handshake, itself reached only from a
\* successful connect of the same iteration; the step that fails at connect
\* or handshake leaves the mailbox as it is, and nothing else shortens it.
C28_FailedConnectKeeps ==
    /\ [][(Len(outbound') < Len(outbound) \/ hist'.deq_out # hist.deq_out) =>
            (ppc = "dequeue" /\ ppc' = "publish"
             /\ outbound' = Tail(outbound)
             /\ pmsg' = Some(Head(outbound)))]_vars
    /\ [][(ppc' = "dequeue" /\ ppc # "dequeue") => ppc = "handshake"]_vars
    /\ [][(ppc' = "handshake" /\ ppc # "handshake") => ppc = "connect"]_vars
    /\ [][(ppc' = "connect" /\ ppc # "connect") => ppc = "check"]_vars
    /\ [][(ppc \in {"connect", "handshake"} /\ ppc' # ppc) =>
            (outbound' = outbound /\ pmsg' = pmsg /\ hist' = hist)]_vars
    /\ [](ppc = "wait500c" => pmsg = None)
\* the worker waits after a failed connect or handshake, the mailbox is full
\* and no message has ever been taken out of it
C28_Witness ==
    /\ ppc = "wait500c"
    /\ Len(outbound) = OUT_CAP
    /\ hist.deq_out = <<>>
    /\ pmsg = None

\* C29: the publisher's dequeue never waits: whenever the worker stands at
\* OUTBOUND.receive() the outbound mailbox holds at least one message, under
\* every interleaving with the producers; and so it does at every step from
\* the readiness check that found it non-empty up to the dequeue.
C29_DequeueNeverWaits ==
    /\ ppc \in {"connect", "handshake", "dequeue"} => outbound # <<>>
    /\ ppc = "dequeue" => ENABLED P_dequeue
\* a later iteration stands at the dequeue with the mailbox full, producers
\* having run in between
C29_Witness ==
    /\ ppc = "dequeue"
    /\ Len(hist.deq_out) > 0
    /\ Len(outbound) = OUT_CAP
    /\ hist.made_out > hist.acc_out

\* C30: one publish attempt per message: a message taken out of the outbound
\* mailbox is held until the one publish call that follows its dequeue and
\* dropped by it, whether the call succeeds or fails; after a failure the
\* worker waits 500 ms and goes back to the readiness check; the message is
\* not put back into the mailbox, and no later dequeue yields it again.
C30_OnePublish ==
    /\ [](pmsg.k = "some" <=> ppc = "publish")
    /\ [](pmsg.k = "some" =>
            /\ hist.deq_out # <<>>
            /\ pmsg.v.id = hist.deq_out[Len(hist.deq_out)]
            /\ \A i \in 1..Len(outbound) : outbound[i].id # pmsg.v.id)
    /\ [](\A i \in 1..Len(outbound), j \in 1..Len(hist.deq_out) :
            outbound[i].id # hist.deq_out[j])
    /\ [][(ppc' = "publish" /\ ppc # "publish") =>
            /\ ppc = "dequeue"
            /\ pmsg' = Some(Head(outbound))
            /\ \A j \in 1..Len(hist.deq_out) : hist.deq_out[j] # Head(outbound).id]_vars
    /\ [][(ppc = "publish" /\ ppc' # ppc) =>
            /\ ppc' \in {"check", "wait500p"}
            /\ pmsg' = None
            /\ outbound' = outbound
            /\ hist' = hist]_vars
    /\ [][(ppc = "wait500p" /\ ppc' # ppc) =>
            (ppc' = "check" /\ outbound' = outbound /\ pmsg' = None)]_vars
\* the publish of the first message failed: the worker waits, holds no
\* message, and the mailbox holds only later messages
C30_Witness ==
    /\ ppc = "wait500p"
    /\ pmsg = None
    /\ Len(hist.deq_out) = 1
    /\ outbound # <<>>
    /\ \A i \in 1..Len(outbound) : outbound[i].id > hist.deq_out[1]

(***************************************************************************)
(* C31: a message received from the broker is appended to the inbound      *)
(* mailbox if and only if its payload is valid UTF-8, its topic is at most *)
(* 64 bytes, its payload is at most 512 bytes and the inbound mailbox      *)
(* holds fewer than 5 messages; in every other case the inbound mailbox is *)
(* unchanged; in all cases the receiver goes on with its readiness check.  *)
(***************************************************************************)
Deliverable(b) ==
    /\ from_utf8(b[2]).k = "some"
    /\ Len(b[1]) <= 64
    /\ Len(b[2]) <= 512
C31_DeliveryRule ==
    [][\A b \in WideMsgs :
          V_received(b) =>
             /\ vpc' = "check"
             /\ IF Deliverable(b) /\ Len(inbound) < 5
                THEN /\ Len(inbound') = Len(inbound) + 1
                     /\ SubSeq(inbound', 1, Len(inbound)) = inbound
                     /\ inbound'[Len(inbound')].topic = b[1]
                     /\ inbound'[Len(inbound')].content = b[2]
                ELSE inbound' = inbound]_vars
\* the receiver is back at its readiness check; the mailbox is full and its
\* last message has a 64-byte topic and a 512-byte payload that ends in a
\* two-byte character; a later delivery was turned away
C31_Witness ==
    /\ vpc = "check"
    /\ Len(inbound) = 5
    /\ Len(inbound[5].topic) = 64
    /\ Len(inbound[5].content) = 512
    /\ inbound[5].content[512] = 169
    /\ hist.made_in > hist.acc_in
    /\ hist.acc_in = 5

(***************************************************************************)
(* C32: under fair scheduling, with the link up, an IPv4 configuration     *)
(* present and connects and handshakes that eventually succeed, every      *)
(* message accepted into the outbound mailbox is eventually dequeued by    *)
(* the publisher and handed to a publish call.                             *)
(***************************************************************************)
C32_OutboundProgress ==
    \A id \in 1..(MaxMsgs + 1) :
        (hist.acc_out >= id /\ \A i \in DOMAIN hist.deq_out : hist.deq_out[i] # id)
           ~> (ppc = "publish" /\ pmsg.k = "some" /\ pmsg.v.id = id)
\* the publisher is at its publish call with a message that was accepted
\* while the mailbox still held others, after the mailbox had turned a
\* message away
C32_Witness ==
    /\ ppc = "publish"
    /\ pmsg.k = "some" /\ pmsg.v.id = OUT_CAP + 1
    /\ hist.made_out > hist.acc_out
    /\ outbound # <<>>

(***************************************************************************)
(* C33: every iteration of every long-running loop passes through a        *)
(* suspension point on every path through its body, so no unit of work     *)
(* runs for ever without yielding.  For the resolver: once in its          *)
(* query/listen loop, query_service is at a send, at recv_from or at a     *)
(* timer, or it has returned or panicked; it is never inside a computation *)
(* that does not end.                                                      *)
(***************************************************************************)
C33_NoBusyWait ==
    InLoop(rpc) => rpc \in {"send", "recv", "pace"}

(***************************************************************************)
(* C34: pump_loop turns the pump off at start and takes at most one        *)
(* message from the inbound mailbox per cycle; on every message taken it   *)
(* flips the pump state, whatever the message says, and enqueues one state *)
(* message to the outbound mailbox (which takes it unless it is full);     *)
(* hence after n commands the pump is on if and only if n is odd.          *)
(***************************************************************************)
C34_PumpToggling ==
    /\ [][(upc = "start" /\ upc' = "poll") => ~pump_on']_vars
    /\ [][Len(hist.deq_in') <= Len(hist.deq_in) + 1]_vars
    /\ [][Len(hist.deq_in') = Len(hist.deq_in) + 1
            => /\ inbound # <<>> /\ inbound' = Tail(inbound)
               /\ pump_on' = ~pump_on
               /\ hist'.made_out = hist.made_out + 1
               /\ IF Len(outbound) < 5
                  THEN /\ Len(outbound') = Len(outbound) + 1
                       /\ SubSeq(outbound', 1, Len(outbound)) = outbound
                       /\ outbound'[Len(outbound')].topic = TopicState
                       /\ outbound'[Len(outbound')].content
                             = (IF pump_on' THEN <<49>> ELSE <<48>>)
                  ELSE outbound' = outbound]_vars
    /\ [](upc = "poll" => (pump_on <=> Len(hist.deq_in) % 2 = 1))
\* five commands taken, so the pump is on; the outbound mailbox holds the
\* discovery message and four state messages and was full for the fifth
C34_Witness ==
    /\ upc = "poll"
    /\ Len(hist.deq_in) = 5
    /\ pump_on
    /\ hist.made_out = 6 /\ hist.acc_out = 5
    /\ Len(outbound) = 5
    /\ outbound[5].content = <<48>>

====
